---- MODULE Spec2Model ----
(***************************************************************************)
(* A model of the trello-mcp server's batch-add-checklist-items tool: the  *)
(* batch validator (ChecklistValidation), the TrelloApiService singleton,  *)
(* HttpClient.request, and the handler's sequential loop with per-item     *)
(* try/catch and fixed pacing delay.                                       *)
(*                                                                         *)
(* JavaScript values are tagged records [t |-> <typeof>, v |-> <value>];   *)
(* strings are sequences of one-character strings, so that trim(),         *)
(* toLowerCase(), includes() and the regular expressions are computed.     *)
(***************************************************************************)
EXTENDS Integers, Sequences, FiniteSets, TLC

(***************************************************************************)
(* Bounds of the model                                                     *)
(***************************************************************************)
\* longest array of items enumerated item by item (longer ones are uniform)
MaxItems == 2

\* most lists on a board, and most cards a fetch returns
MaxLists == 3
MaxCards == 2

(***************************************************************************)
(* Program constants                                                       *)
(***************************************************************************)
MaxBatchSize == 50
MaxNameLength == 16384
IdLength == 24
PacingDelayMs == 100
TimeoutMs == 30000

(***************************************************************************)
(* JavaScript values                                                       *)
(***************************************************************************)
Undefined == [t |-> "undefined", v |-> 0]
Null == [t |-> "null", v |-> 0]
Str(s) == [t |-> "string", v |-> s]
Num(n) == [t |-> "number", v |-> n]
Bool(b) == [t |-> "boolean", v |-> b]
Arr(xs) == [t |-> "array", v |-> xs]
Obj(r) == [t |-> "object", v |-> r]

\* x === undefined
IsUndefined(x) == x.t = "undefined"

\* !x
Falsy(x) ==
    \/ x.t \in {"undefined", "null"}
    \/ x.t = "string" /\ x.v = <<>>
    \/ x.t = "number" /\ x.v = 0
    \/ x.t = "boolean" /\ ~x.v

(***************************************************************************)
(* Strings                                                                 *)
(***************************************************************************)
Digits == <<"0", "1", "2", "3", "4", "5", "6", "7", "8", "9">>
DigitChars == {Digits[k] : k \in 1..10}
HexChars == DigitChars \cup {"a", "b", "c", "d", "e", "f", "A", "B", "C", "D", "E", "F"}
WhiteSpace == {" ", "\t", "\n"}

UpperCase == <<"A","B","C","D","E","F","G","H","I","J","K","L","M",
               "N","O","P","Q","R","S","T","U","V","W","X","Y","Z">>
LowerCase == <<"a","b","c","d","e","f","g","h","i","j","k","l","m",
               "n","o","p","q","r","s","t","u","v","w","x","y","z">>

\* String.prototype.toLowerCase
LowerChar(c) ==
    IF \E k \in 1..Len(UpperCase) : UpperCase[k] = c
    THEN LowerCase[CHOOSE k \in 1..Len(UpperCase) : UpperCase[k] = c]
    ELSE c
ToLowerCase(s) == [k \in 1..Len(s) |-> LowerChar(s[k])]

\* String.prototype.includes
Includes(s, pat) ==
    \E k \in 0..(Len(s) - Len(pat)) : SubSeq(s, k + 1, k + Len(pat)) = pat

\* String.prototype.trim
RECURSIVE TrimStart(_)
TrimStart(s) ==
    IF s # <<>> /\ Head(s) \in WhiteSpace THEN TrimStart(Tail(s)) ELSE s
RECURSIVE TrimEnd(_)
TrimEnd(s) ==
    IF s # <<>> /\ s[Len(s)] \in WhiteSpace
    THEN TrimEnd(SubSeq(s, 1, Len(s) - 1)) ELSE s
Trim(s) == TrimEnd(TrimStart(s))

\* String(n) for a non-negative integer
RECURSIVE NatToString(_)
NatToString(n) ==
    IF n < 10 THEN <<Digits[n + 1]>>
    ELSE NatToString(n \div 10) \o <<Digits[(n % 10) + 1]>>

\* the value of a string of decimal digits
RECURSIVE DigitsValue(_)
DigitsValue(s) ==
    IF s = <<>> THEN 0
    ELSE 10 * DigitsValue(SubSeq(s, 1, Len(s) - 1))
         + ((CHOOSE k \in 1..10 : Digits[k] = s[Len(s)]) - 1)

AllDigits(s, from, to) == \A k \in from..to : s[k] \in DigitChars

(***************************************************************************)
(* ChecklistValidation                                                     *)
(***************************************************************************)
\* /^[0-9a-fA-F]{24}$/.test(id); a non-string never coerces to 24 hex characters
\* among the values of this model
IsValidChecklistId(id) ==
    /\ id.t = "string"
    /\ Len(id.v) = IdLength
    /\ \A k \in 1..Len(id.v) : id.v[k] \in HexChars

IsValidMemberId(id) ==
    /\ id.t = "string"
    /\ Len(id.v) = IdLength
    /\ \A k \in 1..Len(id.v) : id.v[k] \in HexChars

IsValidItemName(name) ==
    /\ name.t = "string"
    /\ Len(Trim(name.v)) > 0
    /\ Len(name.v) <= MaxNameLength

\* a number that is not an integer: n / d with d > 1 (typeof is "number")
Fraction(n, d) == [t |-> "fraction", v |-> <<n, d>>]

\* typeof pos === "string": top or bottom; typeof pos === "number": pos >= 0
IsValidPosition(pos) ==
    IF pos.t = "string" THEN pos.v = <<"t","o","p">> \/ pos.v = <<"b","o","t","t","o","m">>
    ELSE IF pos.t = "number" THEN pos.v >= 0
    ELSE IF pos.t = "fraction" THEN pos.v[1] >= 0
    ELSE FALSE

\* /^\d{4}-\d{2}-\d{2}T\d{2}:\d{2}:\d{2}(\.\d{3})?Z?$/
MatchesIso8601(s) ==
    LET n == Len(s)
        core == /\ n >= 19
                /\ AllDigits(s, 1, 4) /\ s[5] = "-"
                /\ AllDigits(s, 6, 7) /\ s[8] = "-"
                /\ AllDigits(s, 9, 10) /\ s[11] = "T"
                /\ AllDigits(s, 12, 13) /\ s[14] = ":"
                /\ AllDigits(s, 15, 16) /\ s[17] = ":"
                /\ AllDigits(s, 18, 19)
        rest == SubSeq(s, 20, n)
        millis(r) == Len(r) = 4 /\ r[1] = "." /\ AllDigits(r, 2, 4)
    IN  /\ core
        /\ \/ rest = <<>>
           \/ rest = <<"Z">>
           \/ millis(rest)
           \/ Len(rest) = 5 /\ millis(SubSeq(rest, 1, 4)) /\ rest[5] = "Z"

\* !isNaN(new Date(due).getTime()) for a string of the ISO shape: the fields
\* must be in range (24:00:00 is the only time with hour 24)
DateIsValid(s) ==
    LET month == DigitsValue(SubSeq(s, 6, 7))
        day == DigitsValue(SubSeq(s, 9, 10))
        hour == DigitsValue(SubSeq(s, 12, 13))
        minute == DigitsValue(SubSeq(s, 15, 16))
        second == DigitsValue(SubSeq(s, 18, 19))
    IN  /\ month \in 1..12
        /\ day \in 1..31
        /\ minute \in 0..59
        /\ second \in 0..59
        /\ \/ hour \in 0..23
           \/ hour = 24 /\ minute = 0 /\ second = 0

IsValidDueDate(due) ==
    /\ due.t = "string"
    /\ MatchesIso8601(due.v)
    /\ DateIsValid(due.v)

IsValidDueReminder(dueReminder) ==
    dueReminder.t = "number" /\ dueReminder.v >= 0

\* one ChecklistValidationError; for an item of a batch, index is the item's
\* index in the array (field `items[index].field`), otherwise -1
ValidationError(index, field, message) ==
    [index |-> index, field |-> field, message |-> message]

\* validateChecklistItemParameters: the errors in the order they are pushed
ValidateChecklistItemParameters(params) ==
    (IF Falsy(params.checklistId)
     THEN <<ValidationError(-1, "checklistId", "Checklist ID is required")>>
     ELSE IF ~IsValidChecklistId(params.checklistId)
     THEN <<ValidationError(-1, "checklistId", "Invalid checklist ID format")>>
     ELSE <<>>)
    \o
    (IF Falsy(params.name)
     THEN <<ValidationError(-1, "name", "Item name is required")>>
     ELSE IF ~IsValidItemName(params.name)
     THEN <<ValidationError(-1, "name", "Invalid item name format")>>
     ELSE <<>>)
    \o
    (IF ~IsUndefined(params.pos) /\ ~IsValidPosition(params.pos)
     THEN <<ValidationError(-1, "pos", "Invalid position format")>> ELSE <<>>)
    \o
    (IF ~IsUndefined(params.checked) /\ params.checked.t # "boolean"
     THEN <<ValidationError(-1, "checked", "Invalid checked format")>> ELSE <<>>)
    \o
    (IF ~IsUndefined(params.due) /\ ~IsValidDueDate(params.due)
     THEN <<ValidationError(-1, "due", "Invalid due date format")>> ELSE <<>>)
    \o
    (IF ~IsUndefined(params.dueReminder) /\ ~IsValidDueReminder(params.dueReminder)
     THEN <<ValidationError(-1, "dueReminder", "Invalid due reminder format")>> ELSE <<>>)
    \o
    (IF ~IsUndefined(params.idMember) /\ ~IsValidMemberId(params.idMember)
     THEN <<ValidationError(-1, "idMember", "Invalid member ID format")>> ELSE <<>>)

\* faulty IsValidBatchSize: 50 items are too many; no items are enough
IsValidBatchSizeExclusive(items) ==
    items.t = "array" /\ Len(items.v) > 0 /\ Len(items.v) < MaxBatchSize
IsValidBatchSizeAllowsEmpty(items) ==
    items.t = "array" /\ Len(items.v) <= MaxBatchSize

IsValidBatchSize(items) ==
    items.t = "array" /\ Len(items.v) > 0 /\ Len(items.v) <= MaxBatchSize

SelectSeqNotChecklistId(errs) ==
    LET keep(e) == e.field # "checklistId" IN SelectSeq(errs, keep)

\* a faulty BatchItemErrors: only the first error of an item is kept
BatchItemErrorsFirstOnly(checklistId, item, index) ==
    IF Falsy(item) \/ item.t # "object"
    THEN <<ValidationError(index, "", "Invalid item format")>>
    ELSE LET itemParams == [checklistId |-> checklistId,
                            name |-> item.v.name,
                            pos |-> item.v.pos,
                            checked |-> item.v.checked,
                            due |-> item.v.due,
                            dueReminder |-> item.v.dueReminder,
                            idMember |-> item.v.idMember]
             errs == SelectSeqNotChecklistId(ValidateChecklistItemParameters(itemParams))
         IN  [k \in 1..(IF Len(errs) > 0 THEN 1 ELSE 0) |-> [errs[k] EXCEPT !.index = index]]

\* the errors the forEach callback pushes for items[index] (the items of this
\* model are plain objects or primitives, never arrays)
BatchItemErrors(checklistId, item, index) ==
    IF Falsy(item) \/ item.t # "object"
    THEN <<ValidationError(index, "", "Invalid item format")>>
    ELSE LET itemParams == [checklistId |-> checklistId,
                            name |-> item.v.name,
                            pos |-> item.v.pos,
                            checked |-> item.v.checked,
                            due |-> item.v.due,
                            dueReminder |-> item.v.dueReminder,
                            idMember |-> item.v.idMember]
             errs == SelectSeqNotChecklistId(ValidateChecklistItemParameters(itemParams))
         IN  [k \in 1..Len(errs) |-> [errs[k] EXCEPT !.index = index]]

\* a faulty BatchItemsErrors: the errors of the last item come first
RECURSIVE BatchItemsErrorsLastFirst(_, _, _)
BatchItemsErrorsLastFirst(checklistId, items, k) ==
    IF k > Len(items) THEN <<>>
    ELSE BatchItemsErrorsLastFirst(checklistId, items, k + 1)
         \o BatchItemErrors(checklistId, items[k], k - 1)

RECURSIVE BatchItemsErrors(_, _, _)
BatchItemsErrors(checklistId, items, k) ==
    IF k > Len(items) THEN <<>>
    ELSE BatchItemErrors(checklistId, items[k], k - 1)
         \o BatchItemsErrors(checklistId, items, k + 1)

\* validateBatchChecklistItemParameters
ValidateBatchChecklistItemParameters(params) ==
    (IF Falsy(params.checklistId)
     THEN <<ValidationError(-1, "checklistId", "Checklist ID is required")>>
     ELSE IF ~IsValidChecklistId(params.checklistId)
     THEN <<ValidationError(-1, "checklistId", "Invalid checklist ID format")>>
     ELSE <<>>)
    \o
    (IF Falsy(params.items)
     THEN <<ValidationError(-1, "items", "Items array is required")>>
     ELSE IF params.items.t # "array"
     THEN <<ValidationError(-1, "items", "Items must be an array")>>
     ELSE IF ~IsValidBatchSize(params.items)
     THEN <<ValidationError(-1, "items", "Invalid batch size")>>
     ELSE BatchItemsErrors(params.checklistId, params.items.v, 1))

(***************************************************************************)
(* Errors, the remote API and HttpClient.request                           *)
(***************************************************************************)
\* a thrown value: an Error object (isError) with its name and message
Error(name, message) == [isError |-> TRUE, name |-> name, message |-> message]

\* the result of a call: a returned value or a thrown one
Return(value) == [thrown |-> FALSE, value |-> value, error |-> Error("", <<>>)]
Throw(error) == [thrown |-> TRUE, value |-> Undefined, error |-> error]

\* a thrown value that is not an Error object; text is String(value)
NonError(text) == [isError |-> FALSE, name |-> "", message |-> text]

\* what the remote API (or the network) does with one request
ReplyKinds == <<"created", "null", "malformed", "404", "429", "abort", "nonerror">>

\* the same, with more of the HTTP errors
WideReplyKinds == ReplyKinds \o <<"401", "403", "403 unauthorized", "500">>

\* the item the remote API creates for a request body
CreatedItem(body, id) ==
    Obj([id |-> Str(<<"i">> \o NatToString(id)),
         name |-> body.name,
         state |-> Str(IF body.checked.t = "boolean" /\ body.checked.v
                       THEN <<"c","o","m","p","l","e","t","e">> ELSE <<"i","n","c","o","m","p","l","e","t","e">>),
         pos |-> body.pos,
         due |-> body.due,
         dueReminder |-> body.dueReminder,
         idMember |-> body.idMember])

\* the member GET /members/me returns
MemberMe == Obj([id |-> Str([k \in 1..IdLength |-> "b"])])

\* the HTTP exchange of one request, as fetch() sees it: a response, or a
\* rejection with a thrown value; data is the JSON value of a 200 response
\* that carries the requested object
Response(status, statusText, json, data, text) ==
    [kind |-> "response", status |-> status, statusText |-> statusText,
     json |-> json, data |-> data, text |-> text, thrown |-> Error("", <<>>)]
Rejection(thrown) ==
    [kind |-> "reject", status |-> 0, statusText |-> <<>>,
     json |-> "malformed", data |-> Undefined, text |-> <<>>, thrown |-> thrown]

RemoteReply(kind, data) ==
    CASE kind = "created" -> Response(200, <<"O","K">>, "value", data, <<>>)
      [] kind = "null" -> Response(200, <<"O","K">>, "value", Null, <<"n","u","l","l">>)
      [] kind = "malformed" -> Response(200, <<"O","K">>, "malformed", Undefined, <<"<","h","t","m","l",">">>)
      [] kind = "404" ->
           Response(404, <<"N","o","t"," ","F","o","u","n","d">>, "malformed", Undefined,
                    <<"T","h","e"," ","r","e","q","u","e","s","t","e","d"," ","r","e","s","o","u","r","c","e"," ","w","a","s"," ","n","o","t"," ","f","o","u","n","d",".">>)
      [] kind = "429" ->
           Response(429, <<"T","o","o"," ","M","a","n","y"," ","R","e","q","u","e","s","t","s">>, "malformed", Undefined,
                    <<"R","a","t","e"," ","l","i","m","i","t"," ","e","x","c","e","e","d","e","d">>)
      [] kind = "abort" ->
           Rejection(Error("AbortError", <<"T","h","i","s"," ","o","p","e","r","a","t","i","o","n"," ","w","a","s"," ","a","b","o","r","t","e","d">>))
      [] kind = "nonerror" -> Rejection(NonError(<<"b","o","o","m">>))
      [] kind = "401" ->
           Response(401, <<"U","n","a","u","t","h","o","r","i","z","e","d">>, "malformed", Undefined,
                    <<"i","n","v","a","l","i","d"," ","t","o","k","e","n">>)
      [] kind = "403" ->
           Response(403, <<"F","o","r","b","i","d","d","e","n">>, "malformed", Undefined,
                    <<"n","o"," ","w","r","i","t","e"," ","a","c","c","e","s","s">>)
      [] kind = "403 unauthorized" ->
           Response(403, <<"F","o","r","b","i","d","d","e","n">>, "malformed", Undefined,
                    <<"u","n","a","u","t","h","o","r","i","z","e","d"," ","p","e","r","m","i","s","s","i","o","n"," ","r","e","q","u","e","s","t","e","d">>)
      [] kind = "500" ->
           Response(500, <<"I","n","t","e","r","n","a","l"," ","S","e","r","v","e","r"," ","E","r","r","o","r">>, "malformed", Undefined,
                    <<"e","r","r","o","r">>)

\* `HTTP ${response.status}: ${response.statusText} - ${errorText}`
HttpErrorMessage(status, statusText, errorText) ==
    <<"H","T","T","P"," ">> \o NatToString(status) \o <<":"," ">> \o statusText \o <<" ","-"," ">> \o errorText

\* HttpClient.request, from the reply of fetch() on: the inner catch turns an
\* AbortError into the timeout error, the outer catch wraps a non-Error
HttpClientRequest(reply) ==
    IF reply.kind = "reject"
    THEN IF reply.thrown.isError /\ reply.thrown.name = "AbortError"
         THEN Throw(Error("Error", <<"R","e","q","u","e","s","t"," ","t","i","m","e","o","u","t"," ","a","f","t","e","r"," ","3","0"," ","s","e","c","o","n","d","s">>))
         ELSE IF reply.thrown.isError
         THEN Throw(reply.thrown)
         ELSE Throw(Error("Error",
                  <<"U","n","k","n","o","w","n"," ","e","r","r","o","r"," ","o","c","c","u","r","r","e","d"," ","d","u","r","i","n","g"," ","H","T","T","P"," ","r","e","q","u","e","s","t",":"," ">> \o reply.thrown.message))
    ELSE IF ~(reply.status \in 200..299)
    THEN Throw(Error("Error", HttpErrorMessage(reply.status, reply.statusText, reply.text)))
    ELSE IF reply.json = "malformed"
    THEN Throw(Error("SyntaxError", <<"U","n","e","x","p","e","c","t","e","d"," ","t","o","k","e","n"," ","<"," ","i","n"," ","J","S","O","N"," ","a","t"," ","p","o","s","i","t","i","o","n"," ","0">>))
    ELSE Return(reply.data)

(***************************************************************************)
(* batchAddChecklistItemsTool.handler: the pieces of the loop              *)
(***************************************************************************)
\* a faulty RequestBody: an optional field is sent only when its value is truthy
RequestBodyTruthy(item) ==
    LET Sent(x) == IF Falsy(x) THEN Undefined ELSE x
    IN  Return([name |-> Str(Trim(item.v.name.v)),
                pos |-> Sent(item.v.pos),
                checked |-> Sent(item.v.checked),
                due |-> Sent(item.v.due),
                dueReminder |-> Sent(item.v.dueReminder),
                idMember |-> Sent(item.v.idMember)])

\* the request body of one item; item.name.trim() throws on a non-string
RequestBody(item) ==
    IF item.t # "object" \/ item.v.name.t # "string"
    THEN Throw(Error("TypeError", <<"i","t","e","m",".","n","a","m","e",".","t","r","i","m"," ","i","s"," ","n","o","t"," ","a"," ","f","u","n","c","t","i","o","n">>))
    ELSE Return([name |-> Str(Trim(item.v.name.v)),
                 pos |-> item.v.pos,
                 checked |-> item.v.checked,
                 due |-> item.v.due,
                 dueReminder |-> item.v.dueReminder,
                 idMember |-> item.v.idMember])

\* a faulty ResultEntry: the index is one-based
ResultEntryOneBased(index, success, item, result, error) ==
    [index |-> index + 1, success |-> success, item |-> item,
     result |-> result, error |-> error]

\* one entry of results
ResultEntry(index, success, item, result, error) ==
    [index |-> index, success |-> success, item |-> item,
     result |-> result, error |-> error]

\* a faulty ItemTry: the created item is not read, the item counts as failed
ItemTryDropsCreated(i, item, posted) ==
    [thrown |-> TRUE, error |-> posted.error,
     entry |-> ResultEntry(i, FALSE, item, Undefined, Undefined)]

\* the try block after the awaited post(): reading the fields of the created
\* item (a TypeError when the response is null) and pushing the success entry
ItemTry(i, item, posted) ==
    IF posted.thrown THEN [thrown |-> TRUE, error |-> posted.error,
                           entry |-> ResultEntry(i, FALSE, item, Undefined, Undefined)]
    ELSE IF posted.value.t \in {"null", "undefined"}
    THEN [thrown |-> TRUE,
          error |-> Error("TypeError", <<"C","a","n","n","o","t"," ","r","e","a","d"," ","p","r","o","p","e","r","t","i","e","s"," ","o","f"," ","n","u","l","l"," ","(","r","e","a","d","i","n","g"," ","'","i","d","'",")">>),
          entry |-> ResultEntry(i, FALSE, item, Undefined, Undefined)]
    ELSE [thrown |-> FALSE, error |-> Error("", <<>>),
          entry |-> ResultEntry(i, TRUE, item, posted.value, Undefined)]

\* the message of a failed item (the catch block's classification)
ItemErrorMessage(error) ==
    IF ~error.isError THEN <<"U","n","k","n","o","w","n"," ","e","r","r","o","r"," ","o","c","c","u","r","r","e","d">>
    ELSE LET errorMsg == ToLowerCase(error.message)
         IN  IF Includes(errorMsg, <<"n","o","t"," ","f","o","u","n","d">>) \/ Includes(errorMsg, <<"4","0","4">>)
             THEN <<"C","h","e","c","k","l","i","s","t"," ","n","o","t"," ","f","o","u","n","d","."," ","P","l","e","a","s","e"," ","v","e","r","i","f","y"," ","t","h","e"," ","c","h","e","c","k","l","i","s","t"," ","I","D"," ","e","x","i","s","t","s"," ","a","n","d"," ","y","o","u"," ","h","a","v","e"," ","a","c","c","e","s","s"," ","t","o"," ","i","t",".">>
             ELSE IF Includes(errorMsg, <<"u","n","a","u","t","h","o","r","i","z","e","d">>) \/ Includes(errorMsg, <<"4","0","1">>)
             THEN <<"U","n","a","u","t","h","o","r","i","z","e","d"," ","a","c","c","e","s","s","."," ","P","l","e","a","s","e"," ","c","h","e","c","k"," ","y","o","u","r"," ","T","r","e","l","l","o"," ","A","P","I"," ","c","r","e","d","e","n","t","i","a","l","s"," ","a","n","d"," ","b","o","a","r","d"," ","p","e","r","m","i","s","s","i","o","n","s",".">>
             ELSE IF Includes(errorMsg, <<"f","o","r","b","i","d","d","e","n">>) \/ Includes(errorMsg, <<"4","0","3">>)
             THEN <<"A","c","c","e","s","s"," ","f","o","r","b","i","d","d","e","n","."," ","Y","o","u"," ","d","o","n","'","t"," ","h","a","v","e"," ","p","e","r","m","i","s","s","i","o","n"," ","t","o"," ","m","o","d","i","f","y"," ","t","h","i","s"," ","c","h","e","c","k","l","i","s","t",".">>
             ELSE IF Includes(errorMsg, <<"r","a","t","e"," ","l","i","m","i","t">>) \/ Includes(errorMsg, <<"4","2","9">>)
             THEN <<"R","a","t","e"," ","l","i","m","i","t"," ","e","x","c","e","e","d","e","d","."," ","P","l","e","a","s","e"," ","w","a","i","t"," ","b","e","f","o","r","e"," ","m","a","k","i","n","g"," ","m","o","r","e"," ","r","e","q","u","e","s","t","s",".">>
             ELSE error.message

\* a faulty ItemCatch: the catch block rethrows
ItemCatchRethrows(i, item, error) ==
    [propagates |-> TRUE, error |-> error,
     entry |-> ResultEntry(i, FALSE, item, Undefined, Str(ItemErrorMessage(error)))]

\* the catch block of one item: the error is kept in the item's entry and
\* does not propagate
ItemCatch(i, item, error) ==
    [propagates |-> FALSE, error |-> error,
     entry |-> ResultEntry(i, FALSE, item, Undefined, Str(ItemErrorMessage(error)))]

\* a faulty ValidationRejects: a single error is let through
ValidationRejectsSeveral(validationErrors) == Len(validationErrors) > 1

\* validationErrors.length > 0 returns the validation response
ValidationRejects(validationErrors) == Len(validationErrors) > 0

\* a faulty NeedsInitialize: the handler never initialises the service
NeedsInitializeNever(initialized) == FALSE

\* the handler calls initialize() first when the service is not initialised
NeedsInitialize(initialized) == ~initialized

\* faulty NextIndex: a failed item ends the loop; a failed item is retried
NextIndexBreaksOnFailure(i, entry) ==
    IF entry.success THEN i + 1 ELSE i + MaxBatchSize + 1
NextIndexRetriesFailure(i, entry) ==
    IF entry.success THEN i + 1 ELSE i

\* for (let i = 0; i < items.length; i++)
LoopCondition(i, n) == i < n
NextIndex(i, entry) == i + 1

\* a faulty PacingDelay: the delay doubles after a failed item
PacingDelayBacksOff(entry) ==
    IF entry.success THEN PacingDelayMs ELSE 2 * PacingDelayMs

\* the delay between API calls (except for the last item)
PacingNeeded(i, n) == i < n - 1
PacingDelay(entry) == PacingDelayMs

\* a faulty PostsIssued: the request of the next item is issued with it
PostsIssuedAhead(i, body) ==
    <<[index |-> i, body |-> body], [index |-> i + 1, body |-> body]>>

\* the requests post() issues when the loop reaches item i: one
PostsIssued(i, body) == <<[index |-> i, body |-> body]>>

(***************************************************************************)
(* The inputs of the model                                                 *)
(***************************************************************************)
ValidChecklistId == Str([k \in 1..IdLength |-> "a"])

\* checklistId: valid, too short, empty, missing
ChecklistIdInputs == <<ValidChecklistId, Str(<<"6","8","3","6","b","6","4","d">>), Str(<<>>), Undefined>>

Item(name, pos, checked) ==
    Obj([name |-> name, pos |-> pos, checked |-> checked,
         due |-> Undefined, dueReminder |-> Undefined, idMember |-> Undefined])

\* the items arrays are built from: two valid items, an item with an empty
\* name, an item with a negative position
ItemPool ==
    <<Item(Str(<<"A">>), Undefined, Undefined),
      Item(Str(<<" ","B"," ">>), Str(<<"t","o","p">>), Bool(FALSE)),
      Item(Str(<<>>), Undefined, Undefined),
      Item(Str(<<"C">>), Num(-1), Undefined)>>

FullItem(name, pos, checked, due, dueReminder, idMember) ==
    Obj([name |-> name, pos |-> pos, checked |-> checked,
         due |-> due, dueReminder |-> dueReminder, idMember |-> idMember])

\* valid items that carry the optional fields, falsy values among them
RichItems ==
    <<Item(Str(<<" ","B"," ">>), Num(0), Bool(FALSE)),
      Item(Str(<<"A">>), Str(<<"b","o","t","t","o","m">>), Bool(TRUE)),
      Item(Str(<<"A">>), Undefined, Undefined),
      FullItem(Str(<<"A">>), Undefined, Undefined,
               Str(<<"2","0","2","5","-","0","1","-","0","2","T","0","3",":","0","4",":","0","5","Z">>), Num(0), Str([k \in 1..IdLength |-> "c"])),
      FullItem(Str(<<"\t","A","\n">>), Num(0), Bool(FALSE),
               Str(<<"2","0","2","5","-","0","1","-","0","2","T","0","3",":","0","4",":","0","5",".","6","7","8">>), Num(15), Undefined),
      FullItem(Str(<<"A"," ","B">>), Str(<<"t","o","p">>), Undefined,
               Undefined, Undefined, Str([k \in 1..IdLength |-> "c"]))>>

\* items: missing, not an array, the arrays of 0..MaxItems items of the pool,
\* an array of MaxBatchSize + 1 valid items
ItemsInputs ==
    {Undefined, Num(5), Arr([k \in 1..(MaxBatchSize + 1) |-> ItemPool[1]])}
    \cup {Arr([k \in 1..n |-> ItemPool[f[k]]]) :
            n \in 0..MaxItems, f \in [1..MaxItems -> 1..Len(ItemPool)]}

(***************************************************************************)
(* State                                                                   *)
(***************************************************************************)
VARIABLES
    mainPc,           \* main() of index.ts: "absent" when the tool module is used
                      \* without the server, else "start", "init_wait",
                      \* "connected", "exited"
    envOk,            \* TRELLO_API_KEY and TRELLO_TOKEN are both set
    isInitialized,    \* TrelloApiService.isInitialized
    remoteItems,      \* the items the remote checklist has created
    args,             \* the handler's argument: [checklistId, items]
    pc,               \* the handler: "idle", "init_wait", "post_wait", "pacing", "done"
    i,                \* the loop index
    results,          \* results
    successfulCount,
    failedCount,
    response,         \* what the handler returned
    calls,            \* the create-item requests issued: [index, body]
    trace,            \* the events of the run, in order
    replies,          \* what fetch() gave the handler's requests, in order
    second,           \* a second invocation of the handler: its arguments, its
                      \* locals (a HandlerState) and the replies it received
    http,             \* one call of HttpClient.request: its position, its
                      \* abort timer and the time since it was sent
    service,          \* TrelloApiService: its configuration, the calls of
                      \* initialize() under way and the last step taken
    debug,            \* debug-trello in two runs side by side: the
                      \* environment and the text of each run
    card,             \* one call of update-card: its arguments, the requests
                      \* it sent and its response
    lists             \* one call of get-all-cards-for-each-list: the board,
                      \* the handler's locals, its requests and its output

vars == <<mainPc, envOk, isInitialized, remoteItems, args, pc, i, results,
          successfulCount, failedCount, response, calls, trace, replies, second,
          http, service, debug, card, lists>>

\* the state of the batch tool and of main()
batchVars == <<mainPc, envOk, isInitialized, remoteItems, args, pc, i, results,
               successfulCount, failedCount, response, calls, trace, replies, second>>

\* the state of the card and list tools
toolVars == <<card, lists>>

\* the state of the other parts of the program
otherVars == <<http, service, debug, card, lists>>

\* events, by "main" or by the "handler": "validate", "GET /members/me",
\* "POST checkItems" (of item idx), "settle" (of the call of item idx, or of
\* the GET when idx = -1; ok: the awaited call returned), "sleep" (of ms
\* milliseconds, after item idx), "wake"
Event(by, ev, idx, ms, ok) == [by |-> by, ev |-> ev, idx |-> idx, ms |-> ms, ok |-> ok]

NoResponse == [kind |-> "none"]
ValidationResponse(errors) == [kind |-> "validation", errors |-> errors]
ToolErrorResponse(error) == [kind |-> "toolError", error |-> error]
\* a faulty OverallSuccess: one created item makes the batch a success
OverallSuccessAnyCreated(successful, failed) == successful > 0

\* const overallSuccess = failedCount === 0
OverallSuccess(successful, failed) == failed = 0

\* the heading of the response text, after "# Batch Checklist Items "
StatusTitle(overallSuccess) ==
    IF overallSuccess THEN <<"C","o","m","p","l","e","t","e","d"," ","S","u","c","c","e","s","s","f","u","l","l","y">>
    ELSE <<"C","o","m","p","l","e","t","e","d"," ","w","i","t","h"," ","E","r","r","o","r","s">>

SummaryResponse(st, a, n) ==
    [kind |-> "summary",
     overallSuccess |-> OverallSuccess(st.successfulCount, st.failedCount),
     title |-> StatusTitle(OverallSuccess(st.successfulCount, st.failedCount)),
     summary |-> [total |-> n, successful |-> st.successfulCount,
                  failed |-> st.failedCount, checklistId |-> a.checklistId],
     results |-> st.results]

HandlerState ==
    [pc |-> pc, i |-> i, results |-> results, successfulCount |-> successfulCount,
     failedCount |-> failedCount, response |-> response, calls |-> calls,
     trace |-> trace]

SetHandler(st) ==
    /\ pc' = st.pc
    /\ i' = st.i
    /\ results' = st.results
    /\ successfulCount' = st.successfulCount
    /\ failedCount' = st.failedCount
    /\ response' = st.response
    /\ calls' = st.calls
    /\ trace' = st.trace

Finish(st, resp) == [st EXCEPT !.pc = "done", !.response = resp]

(***************************************************************************)
(* The handler's synchronous segments: each runs to the next await          *)
(***************************************************************************)
\* items.length as the loop reads it (undefined for a non-array: no iteration)
ItemsLength(items) == IF items.t = "array" THEN Len(items.v) ELSE 0

RECURSIVE LoopFrom(_, _, _)
RECURSIVE AfterItem(_, _, _, _)

\* the loop from its condition for index st.i to the awaited post()
LoopFrom(st, a, initialized) ==
    LET n == ItemsLength(a.items)
    IN  IF a.items.t \in {"undefined", "null"}
        THEN Finish(st, ToolErrorResponse(
                 Error("TypeError", <<"C","a","n","n","o","t"," ","r","e","a","d"," ","p","r","o","p","e","r","t","i","e","s"," ","o","f"," ","u","n","d","e","f","i","n","e","d"," ","(","r","e","a","d","i","n","g"," ","'","l","e","n","g","t","h","'",")">>)))
        ELSE IF ~LoopCondition(st.i, n)
        THEN Finish(st, SummaryResponse(st, a, n))
        ELSE LET item == a.items.v[st.i + 1]
                 body == RequestBody(item)
             IN  IF body.thrown
                 THEN AfterItem(st, a, initialized, ItemCatch(st.i, item, body.error))
                 ELSE IF ~initialized
                 THEN AfterItem(st, a, initialized,
                          ItemCatch(st.i, item, Error("Error",
                              <<"T","r","e","l","l","o"," ","A","P","I"," ","S","e","r","v","i","c","e"," ","n","o","t"," ","i","n","i","t","i","a","l","i","z","e","d","."," ","C","a","l","l"," ","i","n","i","t","i","a","l","i","z","e","(",")"," ","f","i","r","s","t",".">>)))
                 ELSE LET posts == PostsIssued(st.i, body.value)
                      IN  [st EXCEPT
                             !.pc = "post_wait",
                             !.calls = @ \o posts,
                             !.trace = @ \o [k \in 1..Len(posts) |->
                                              Event("handler", "POST checkItems", posts[k].index, 0, TRUE)]]

\* from the end of the try/catch of item st.i (c: what it produced) to the
\* pacing delay, or on into the next iteration
AfterItem(st, a, initialized, c) ==
    IF c.propagates THEN Finish(st, ToolErrorResponse(c.error))
    ELSE LET n == ItemsLength(a.items)
             st1 == [st EXCEPT
                       !.results = Append(@, c.entry),
                       !.successfulCount = IF c.entry.success THEN @ + 1 ELSE @,
                       !.failedCount = IF c.entry.success THEN @ ELSE @ + 1]
         IN  IF PacingNeeded(st.i, n)
             THEN [st1 EXCEPT
                     !.pc = "pacing",
                     !.trace = Append(@, Event("handler", "sleep", st.i, PacingDelay(c.entry), TRUE))]
             ELSE LoopFrom([st1 EXCEPT !.i = NextIndex(st.i, c.entry)], a, initialized)

\* from the validation to the first awaited post()
ValidateAndRun(st, a, initialized) ==
    LET validationErrors == ValidateBatchChecklistItemParameters(a)
        st1 == [st EXCEPT !.trace = Append(@, Event("handler", "validate", -1, 0, TRUE))]
    IN  IF ValidationRejects(validationErrors)
        THEN Finish(st1, ValidationResponse(validationErrors))
        ELSE LoopFrom([st1 EXCEPT !.i = 0], a, initialized)

\* initialize() failed: `Failed to initialize Trello API Service: ${message}`
InitializeError(message) ==
    Error("Error", <<"F","a","i","l","e","d"," ","t","o"," ","i","n","i","t","i","a","l","i","z","e"," ","T","r","e","l","l","o"," ","A","P","I"," ","S","e","r","v","i","c","e",":"," ">> \o message)
MissingCredentialsMessage ==
    <<"M","i","s","s","i","n","g"," ","r","e","q","u","i","r","e","d"," ","T","r","e","l","l","o"," ","A","P","I"," ","c","r","e","d","e","n","t","i","a","l","s","."," ","P","l","e","a","s","e"," ","s","e","t"," ","T","R","E","L","L","O","_","A","P","I","_","K","E","Y"," ","a","n","d"," ","T","R","E","L","L","O","_","T","O","K","E","N"," ","e","n","v","i","r","o","n","m","e","n","t"," ","v","a","r","i","a","b","l","e","s",".">>
InvalidCredentialsMessage ==
    <<"I","n","v","a","l","i","d"," ","T","r","e","l","l","o"," ","A","P","I"," ","c","r","e","d","e","n","t","i","a","l","s","."," ","P","l","e","a","s","e"," ","c","h","e","c","k"," ","y","o","u","r"," ","T","R","E","L","L","O","_","A","P","I","_","K","E","Y"," ","a","n","d"," ","T","R","E","L","L","O","_","T","O","K","E","N",".">>

(***************************************************************************)
(* The handler's steps, from one await to the next                          *)
(***************************************************************************)
\* the locals of an invocation that has not started
IdleHandler ==
    [pc |-> "idle", i |-> 0, results |-> <<>>, successfulCount |-> 0,
     failedCount |-> 0, response |-> NoResponse, calls |-> <<>>, trace |-> <<>>]

\* from the call of the handler to its first await (or its return)
InvokeStep(st, a, initialized, envok) ==
    IF NeedsInitialize(initialized)
    THEN IF ~envok
         THEN Finish(st, ToolErrorResponse(InitializeError(MissingCredentialsMessage)))
         ELSE [st EXCEPT
                 !.pc = "init_wait",
                 !.trace = Append(@, Event("handler", "GET /members/me", -1, 0, TRUE))]
    ELSE ValidateAndRun(st, a, initialized)

\* the credentials request of the handler's initialize() has settled (got)
InitSettleStep(st, a, got) ==
    LET st0 == [st EXCEPT
                  !.trace = Append(@, Event("handler", "settle", -1, 0, ~got.thrown))]
    IN  IF got.thrown
        THEN Finish(st0, ToolErrorResponse(InitializeError(InvalidCredentialsMessage)))
        ELSE ValidateAndRun(st0, a, TRUE)

\* what fetch() gives the create call of item idx: the remote API answers
\* "created" with the item it has created, its id the next of the checklist
PostReply(kind, a, idx, remote) ==
    RemoteReply(kind, CreatedItem(RequestBody(a.items.v[idx + 1]).value, Len(remote) + 1))

\* the remote checklist after a reply: only a created item is added
RemoteAfter(remote, reply) ==
    IF reply.kind = "response" /\ reply.status = 200 /\ reply.data.t = "object"
    THEN Append(remote, reply.data) ELSE remote

\* the awaited post() of item st.i has settled with reply: the rest of the
\* try/catch, then the delay or the end of the loop
PostSettleStep(st, a, initialized, reply) ==
    LET item == a.items.v[st.i + 1]
        posted == HttpClientRequest(reply)
        tried == ItemTry(st.i, item, posted)
        c == IF tried.thrown THEN ItemCatch(st.i, item, tried.error)
             ELSE [propagates |-> FALSE, error |-> tried.error, entry |-> tried.entry]
        st0 == [st EXCEPT
                  !.trace = Append(@, Event("handler", "settle", st.i, 0, ~posted.thrown))]
    IN  AfterItem(st0, a, initialized, c)

\* the pacing timer has fired: i++ and the next iteration
PacingStep(st, a, initialized) ==
    LoopFrom([st EXCEPT
                !.trace = Append(@, Event("handler", "wake", st.i, 0, TRUE)),
                !.i = NextIndex(st.i, st.results[Len(st.results)])],
             a, initialized)

(***************************************************************************)
(* Initial state                                                           *)
(***************************************************************************)
\* the remote checklist before the batch: empty, or with one item
PriorInputs == <<<<>>, <<CreatedItem(RequestBody(ItemPool[1]).value, 0)>>>>

\* no second invocation
NoSecond ==
    [present |-> FALSE, args |-> [checklistId |-> Undefined, items |-> Undefined],
     h |-> IdleHandler, replies |-> <<>>, afterFirst |-> FALSE]

\* no call of HttpClient.request
NoRequest ==
    [pc |-> "idle", method |-> "GET", hasBody |-> FALSE, timer |-> "none",
     aborted |-> FALSE, elapsed |-> 0,
     reply |-> Rejection(Error("", <<>>)), outcome |-> Return(Undefined)]

\* the configuration loadTrelloConfig() returns: the process-wide credentials
Credentials == [apiKey |-> Str(<<"K","1">>), token |-> Str(<<"T","1">>)]
NoConfig == [apiKey |-> Undefined, token |-> Undefined]

\* String(value) of a query parameter
StringOf(x) ==
    CASE x.t = "string" -> x.v
      [] x.t = "number" -> NatToString(x.v)
      [] x.t = "boolean" -> IF x.v THEN <<"t","r","u","e">> ELSE <<"f","a","l","s","e">>

\* a caller's params: Record<string, string | number | boolean>, or none
Params(key, token, fields) == [key |-> key, token |-> token, fields |-> fields]
ParamsInputs ==
    <<Params(Undefined, Undefined, Undefined),
      Params(Undefined, Undefined, Str(<<"n","a","m","e">>)),
      Params(Str(<<"K","2">>), Undefined, Undefined),
      Params(Undefined, Str(<<"T","2">>), Str(<<"n","a","m","e">>)),
      Params(Num(7), Bool(TRUE), Undefined),
      Params(Str(<<"K","1">>), Str(<<"T","1">>), Undefined)>>

\* { key: this.config.apiKey, token: this.config.token, ...options.params }
AuthParams(config, params) ==
    [key |-> IF IsUndefined(params.key) THEN config.apiKey ELSE params.key,
     token |-> IF IsUndefined(params.token) THEN config.token ELSE params.token,
     fields |-> params.fields]

\* requestUrl.searchParams.append(key, String(value)) for every entry
SearchParams(params) ==
    [k \in DOMAIN params |->
        IF IsUndefined(params[k]) THEN Undefined ELSE Str(StringOf(params[k]))]

\* a request handed to fetch(): by validateCredentials() or by
\* makeAuthenticatedRequest()
Sent(kind, method, query) == [kind |-> kind, method |-> method, query |-> query]
NothingSent == Sent("none", "GET", SearchParams(Params(Undefined, Undefined, Undefined)))

NotInitializedMessage ==
    <<"T","r","e","l","l","o"," ","A","P","I"," ","S","e","r","v","i","c","e"," ","n","o","t"," ","i","n","i","t","i","a","l","i","z","e","d","."," ","C","a","l","l"," ","i","n","i","t","i","a","l","i","z","e","(",")"," ","f","i","r","s","t",".">>

\* the last call or settlement: what it found, what it sent, what it threw
Step(op, initializedBefore, validatedBefore, sent, thrown) ==
    [op |-> op, initializedBefore |-> initializedBefore,
     validatedBefore |-> validatedBefore, sent |-> sent, thrown |-> thrown]

Callers == {1, 2}

NoService ==
    [config |-> NoConfig, init |-> [c \in Callers |-> "idle"], validated |-> FALSE,
     last |-> Step("none", FALSE, FALSE, NothingSent, <<>>)]

\* the environment of a run: TRELLO_API_KEY and TRELLO_TOKEN
Env(key, token) == [key |-> key, token |-> token]

\* a piece of the text of debug-trello: a fixed part and an interpolated value
Line(fixed, val) == [fixed |-> fixed, val |-> val]

\* debug-trello is not running
NoDebug ==
    [pc |-> "idle", env |-> <<Env(Undefined, Undefined), Env(Undefined, Undefined)>>,
     text |-> <<<<>>, <<>>>>, failed |-> FALSE]

\* update-card has not been called
NoCard ==
    [pc |-> "idle", args |-> <<>>, puts |-> <<>>,
     response |-> [kind |-> "none", errors |-> <<>>, message |-> <<>>]]

\* get-all-cards-for-each-list has not been called
NoLists ==
    [pc |-> "idle", configured |-> TRUE, board |-> <<>>, fetched |-> <<>>,
     listsWithCards |-> <<>>, totalCards |-> 0, requests |-> <<>>,
     got |-> <<>>,
     out |-> [kind |-> "none", totalLists |-> 0, totalCards |-> 0,
              sections |-> <<>>, message |-> <<>>]]

ToolsIdle ==
    /\ card = NoCard
    /\ lists = NoLists

\* the other parts of the program are not running
OtherIdle ==
    /\ http = NoRequest
    /\ service = NoService
    /\ debug = NoDebug
    /\ ToolsIdle

Init ==
    /\ OtherIdle
    /\ mainPc \in {"absent", "start"}
    /\ envOk \in BOOLEAN
    /\ isInitialized = FALSE
    /\ \E p \in 1..Len(PriorInputs) : remoteItems = PriorInputs[p]
    /\ \E c \in 1..Len(ChecklistIdInputs), items \in ItemsInputs :
          args = [checklistId |-> ChecklistIdInputs[c], items |-> items]
    /\ pc = "idle"
    /\ i = 0
    /\ results = <<>>
    /\ successfulCount = 0
    /\ failedCount = 0
    /\ response = NoResponse
    /\ calls = <<>>
    /\ trace = <<>>
    /\ replies = <<>>
    /\ second = NoSecond

(***************************************************************************)
(* main() of index.ts                                                      *)
(***************************************************************************)
handlerVars == <<args, pc, i, results, successfulCount, failedCount, response, calls>>

\* initialize() throws on the missing credentials: process.exit(1)
MainConfigMissing ==
    /\ mainPc = "start"
    /\ ~envOk
    /\ mainPc' = "exited"
    /\ UNCHANGED <<envOk, isInitialized, remoteItems, trace, handlerVars, replies, second, otherVars>>

\* initialize() loads the configuration and awaits validateCredentials()
MainInitialize ==
    /\ mainPc = "start"
    /\ envOk
    /\ mainPc' = "init_wait"
    /\ trace' = Append(trace, Event("main", "GET /members/me", -1, 0, TRUE))
    /\ UNCHANGED <<envOk, isInitialized, remoteItems, handlerVars, replies, second, otherVars>>

\* a faulty MainAfterInitialize: the failure is logged and the transport is
\* connected all the same
MainAfterInitializeConnectsAnyway(got) == "connected"

\* main() after `await trelloApi.initialize()`: server.connect(transport), or
\* process.exit(1) from the catch block
MainAfterInitialize(got) == IF got.thrown THEN "exited" ELSE "connected"

\* the credentials request settles: connect the transport, or exit
MainInitSettle ==
    /\ mainPc = "init_wait"
    /\ \E k \in 1..Len(ReplyKinds) :
       \E got \in {HttpClientRequest(RemoteReply(ReplyKinds[k], MemberMe))} :
              /\ isInitialized' = ~got.thrown
              /\ mainPc' = MainAfterInitialize(got)
              /\ trace' = Append(trace, Event("main", "settle", -1, 0, ~got.thrown))
    /\ UNCHANGED <<envOk, remoteItems, handlerVars, replies, second, otherVars>>

(***************************************************************************)
(* batchAddChecklistItemsTool.handler                                      *)
(***************************************************************************)
\* the handler is called: through the connected server, or directly
Invoke ==
    /\ pc = "idle"
    /\ mainPc \in {"absent", "connected"}
    /\ \E st \in {InvokeStep(HandlerState, args, isInitialized, envOk)} :
          SetHandler(st)
    /\ UNCHANGED <<mainPc, envOk, isInitialized, remoteItems, args, replies, second, otherVars>>

\* the credentials request of the handler's initialize() settles
InitSettle ==
    /\ pc = "init_wait"
    /\ \E k \in 1..Len(ReplyKinds) :
       \E reply \in {RemoteReply(ReplyKinds[k], MemberMe)} :
       \E got \in {HttpClientRequest(reply)} :
       \E st \in {InitSettleStep(HandlerState, args, got)} :
          /\ isInitialized' = (isInitialized \/ ~got.thrown)
          /\ SetHandler(st)
          /\ replies' = Append(replies, reply)
    /\ UNCHANGED <<mainPc, envOk, remoteItems, args, second, otherVars>>

\* the awaited post() of item i settles with a reply of the given kind
SettlePost(kind) ==
    /\ pc = "post_wait"
    /\ \E reply \in {PostReply(kind, args, i, remoteItems)} :
       \E st \in {PostSettleStep(HandlerState, args, isInitialized, reply)} :
          /\ SetHandler(st)
          /\ replies' = Append(replies, reply)
          /\ remoteItems' = RemoteAfter(remoteItems, reply)
    /\ UNCHANGED <<mainPc, envOk, isInitialized, args, second, otherVars>>

PostSettle == \E k \in 1..Len(ReplyKinds) : SettlePost(ReplyKinds[k])

\* the pacing timer fires: i++ and the next iteration
PacingFire ==
    /\ pc = "pacing"
    /\ \E st \in {PacingStep(HandlerState, args, isInitialized)} :
          SetHandler(st)
    /\ UNCHANGED <<mainPc, envOk, isInitialized, remoteItems, args, replies, second, otherVars>>

Next ==
    \/ MainConfigMissing
    \/ MainInitialize
    \/ MainInitSettle
    \/ Invoke
    \/ InitSettle
    \/ PostSettle
    \/ PacingFire

Spec == Init /\ [][Next]_vars

\* every remote call settles and every timer fires
FairSpec ==
    /\ Spec
    /\ WF_vars(MainInitSettle)
    /\ WF_vars(InitSettle)
    /\ WF_vars(PostSettle)
    /\ WF_vars(PacingFire)

(***************************************************************************)
(* One item at a time: batches of a single item with the optional fields,  *)
(* and more of the HTTP errors                                             *)
(***************************************************************************)
ItemInit ==
    /\ OtherIdle
    /\ mainPc = "absent"
    /\ envOk = TRUE
    /\ isInitialized = FALSE
    /\ remoteItems = <<>>
    /\ \E k \in 1..Len(RichItems) :
          args = [checklistId |-> ValidChecklistId, items |-> Arr(<<RichItems[k]>>)]
    /\ pc = "idle"
    /\ i = 0
    /\ results = <<>>
    /\ successfulCount = 0
    /\ failedCount = 0
    /\ response = NoResponse
    /\ calls = <<>>
    /\ trace = <<>>
    /\ replies = <<>>
    /\ second = NoSecond

ItemPostSettle == \E k \in 1..Len(WideReplyKinds) : SettlePost(WideReplyKinds[k])

ItemNext ==
    \/ Invoke
    \/ InitSettle
    \/ ItemPostSettle

ItemSpec == ItemInit /\ [][ItemNext]_vars

(***************************************************************************)
(* The validation of a batch: the handler up to its first create call, on  *)
(* requests of every shape                                                 *)
(***************************************************************************)
\* an item whose six fields are all invalid, and one with two invalid fields
BadItems ==
    <<FullItem(Str(<<>>), Num(-1), Str(<<"y","e","s">>), Str(<<"t","o","m","o","r","r","o","w">>), Num(-5), Str(<<"x","y","z">>)),
      FullItem(Str(<<"A">>), Str(<<"m","i","d","d","l","e">>), Undefined, Str(<<"2","0","2","5","-","1","3","-","0","1","T","0","0",":","0","0",":","0","0","Z">>), Undefined, Undefined)>>

\* the lengths of the uniform arrays
SizeInputs == <<1, 2, MaxBatchSize - 1, MaxBatchSize, MaxBatchSize + 1, MaxBatchSize + 2>>

\* items: missing, null, not an array, empty; arrays of valid items of each
\* size; arrays of each size that end with an invalid item; short arrays
\* that mix valid items, invalid items and values that are not objects
ValidationItemsInputs ==
    {Undefined, Null, Num(5), Arr(<<>>)}
    \cup {Arr([k \in 1..SizeInputs[n] |-> RichItems[4]]) : n \in 1..Len(SizeInputs)}
    \cup {Arr([k \in 1..SizeInputs[n] |->
                 IF k = SizeInputs[n] THEN BadItems[1] ELSE ItemPool[1]]) :
            n \in 1..Len(SizeInputs)}
    \cup {Arr(<<ItemPool[1], BadItems[1]>>), Arr(<<BadItems[1], BadItems[2]>>),
          Arr(<<Num(7), ItemPool[2]>>), Arr(<<Null, BadItems[2], Str(<<"A">>)>>)}

ValidationInit ==
    /\ OtherIdle
    /\ mainPc = "absent"
    /\ envOk = TRUE
    /\ isInitialized = FALSE
    /\ remoteItems = <<>>
    /\ \E c \in 1..Len(ChecklistIdInputs), items \in ValidationItemsInputs :
          args = [checklistId |-> ChecklistIdInputs[c], items |-> items]
    /\ pc = "idle"
    /\ i = 0
    /\ results = <<>>
    /\ successfulCount = 0
    /\ failedCount = 0
    /\ response = NoResponse
    /\ calls = <<>>
    /\ trace = <<>>
    /\ replies = <<>>
    /\ second = NoSecond

ValidationNext ==
    \/ Invoke
    \/ InitSettle

ValidationSpec == ValidationInit /\ [][ValidationNext]_vars

(***************************************************************************)
(* Two invocations of the handler: one after the other, or interleaved at  *)
(* their awaits. They share the TrelloApiService singleton and the remote  *)
(* checklist; each has its own locals.                                     *)
(***************************************************************************)
\* the batches of the two invocations
TwoBatchInputs ==
    <<Arr(<<ItemPool[1], ItemPool[2]>>), Arr(<<ItemPool[2], ItemPool[1]>>)>>

\* the replies of the remote API to the two invocations
TwoReplyKinds == <<"created", "null", "404">>

TwoInit ==
    /\ OtherIdle
    /\ mainPc = "absent"
    /\ envOk = TRUE
    /\ isInitialized = FALSE
    /\ remoteItems = <<>>
    /\ \E b \in 1..Len(TwoBatchInputs) :
          args = [checklistId |-> ValidChecklistId, items |-> TwoBatchInputs[b]]
    /\ pc = "idle"
    /\ i = 0
    /\ results = <<>>
    /\ successfulCount = 0
    /\ failedCount = 0
    /\ response = NoResponse
    /\ calls = <<>>
    /\ trace = <<>>
    /\ replies = <<>>
    /\ \E b \in 1..Len(TwoBatchInputs) :
          second = [present |-> TRUE,
                    args |-> [checklistId |-> ValidChecklistId, items |-> TwoBatchInputs[b]],
                    h |-> IdleHandler, replies |-> <<>>, afterFirst |-> FALSE]

firstVars == <<args, pc, i, results, successfulCount, failedCount, response,
               calls, trace, replies>>

\* a faulty SecondLocals: results is one array of the module, shared by the
\* invocations
SecondLocalsShared == [second.h EXCEPT !.results = results]

\* the locals of the second invocation: results, the counters and i are
\* declared in the handler, one set for each call
SecondLocals == second.h

\* the first invocation settles its create call
TwoPostSettle == \E k \in 1..Len(TwoReplyKinds) : SettlePost(TwoReplyKinds[k])

SecondInvoke ==
    /\ second.present
    /\ second.h.pc = "idle"
    /\ mainPc \in {"absent", "connected"}
    /\ \E st \in {InvokeStep(SecondLocals, second.args, isInitialized, envOk)} :
          second' = [second EXCEPT !.h = st, !.afterFirst = (pc = "done")]
    /\ UNCHANGED <<mainPc, envOk, isInitialized, remoteItems, firstVars, otherVars>>

SecondInitSettle ==
    /\ second.h.pc = "init_wait"
    /\ \E k \in 1..Len(TwoReplyKinds) :
       \E reply \in {RemoteReply(TwoReplyKinds[k], MemberMe)} :
       \E got \in {HttpClientRequest(reply)} :
       \E st \in {InitSettleStep(SecondLocals, second.args, got)} :
          /\ isInitialized' = (isInitialized \/ ~got.thrown)
          /\ second' = [second EXCEPT !.h = st, !.replies = Append(@, reply)]
    /\ UNCHANGED <<mainPc, envOk, remoteItems, firstVars, otherVars>>

SecondPostSettle ==
    /\ second.h.pc = "post_wait"
    /\ \E k \in 1..Len(TwoReplyKinds) :
       \E reply \in {PostReply(TwoReplyKinds[k], second.args, second.h.i, remoteItems)} :
       \E st \in {PostSettleStep(SecondLocals, second.args, isInitialized, reply)} :
          /\ second' = [second EXCEPT !.h = st, !.replies = Append(@, reply)]
          /\ remoteItems' = RemoteAfter(remoteItems, reply)
    /\ UNCHANGED <<mainPc, envOk, isInitialized, firstVars, otherVars>>

SecondPacingFire ==
    /\ second.h.pc = "pacing"
    /\ \E st \in {PacingStep(SecondLocals, second.args, isInitialized)} :
          second' = [second EXCEPT !.h = st]
    /\ UNCHANGED <<mainPc, envOk, isInitialized, remoteItems, firstVars, otherVars>>

\* the first invocation's credentials request settles
TwoInitSettle ==
    /\ pc = "init_wait"
    /\ \E k \in 1..Len(TwoReplyKinds) :
       \E reply \in {RemoteReply(TwoReplyKinds[k], MemberMe)} :
       \E got \in {HttpClientRequest(reply)} :
       \E st \in {InitSettleStep(HandlerState, args, got)} :
          /\ isInitialized' = (isInitialized \/ ~got.thrown)
          /\ SetHandler(st)
          /\ replies' = Append(replies, reply)
    /\ UNCHANGED <<mainPc, envOk, remoteItems, args, second, otherVars>>

TwoNext ==
    \/ Invoke
    \/ TwoInitSettle
    \/ TwoPostSettle
    \/ PacingFire
    \/ SecondInvoke
    \/ SecondInitSettle
    \/ SecondPostSettle
    \/ SecondPacingFire

TwoSpec == TwoInit /\ [][TwoNext]_vars

(***************************************************************************)
(* HttpClient.request, step by step: the abort timer, fetch(), the reading *)
(* of the body                                                             *)
(***************************************************************************)
\* the batch tool and main() are not running
HandlerIdle ==
    /\ mainPc = "absent"
    /\ envOk = TRUE
    /\ remoteItems = <<>>
    /\ args = [checklistId |-> Undefined, items |-> Undefined]
    /\ pc = "idle"
    /\ i = 0
    /\ results = <<>>
    /\ successfulCount = 0
    /\ failedCount = 0
    /\ response = NoResponse
    /\ calls = <<>>
    /\ trace = <<>>
    /\ replies = <<>>
    /\ second = NoSecond

BatchIdle ==
    /\ isInitialized = FALSE
    /\ HandlerIdle
    /\ ToolsIdle

\* the model's unit of time, and how long a server is watched stalling
TickMs == TimeoutMs \div 3
StallMs == TimeoutMs + TickMs

HttpMethods == {"GET", "POST", "PUT", "DELETE", "PATCH"}

\* the replies with which fetch() resolves, and those with which it rejects
ResponseKinds == {k \in 1..Len(WideReplyKinds) : RemoteReply(WideReplyKinds[k], MemberMe).kind = "response"}
RejectKinds == {k \in 1..Len(WideReplyKinds) :
                  /\ RemoteReply(WideReplyKinds[k], MemberMe).kind = "reject"
                  /\ WideReplyKinds[k] # "abort"}

\* request() has not settled
Pending == http.pc \in {"fetch", "text", "json"}

HttpInit ==
    /\ BatchIdle
    /\ service = NoService
    /\ debug = NoDebug
    /\ \E m \in HttpMethods, b \in BOOLEAN :
          http = [NoRequest EXCEPT !.method = m, !.hasBody = b]

\* request() up to `await fetch(...)`: setTimeout(() => controller.abort(), 30000)
RequestSend ==
    /\ http.pc = "idle"
    /\ http' = [http EXCEPT !.pc = "fetch", !.timer = "armed"]
    /\ UNCHANGED <<batchVars, service, debug, toolVars>>

\* time passes while the call is pending; an armed timer fires at 30000 ms
\* and the rejection of an aborted call does not wait for the server
Tick ==
    /\ Pending
    /\ http.elapsed < StallMs
    /\ http.timer = "armed" => http.elapsed < TimeoutMs
    /\ ~http.aborted
    /\ http' = [http EXCEPT !.elapsed = @ + TickMs]
    /\ UNCHANGED <<batchVars, service, debug, toolVars>>

\* fetch() resolves with the response (its status line and headers):
\* clearTimeout(timeoutId), then `await response.text()` when !response.ok,
\* else `await response.json()`
FetchResolves ==
    /\ http.pc = "fetch"
    /\ ~http.aborted
    /\ \E k \in ResponseKinds :
       \E reply \in {RemoteReply(WideReplyKinds[k], MemberMe)} :
          http' = [http EXCEPT !.reply = reply,
                               !.timer = "cleared",
                               !.pc = IF reply.status \in 200..299 THEN "json" ELSE "text"]
    /\ UNCHANGED <<batchVars, service, debug, toolVars>>

\* fetch() rejects (no connection): the inner catch clears the timer and
\* rethrows, the outer catch wraps a value that is not an Error
FetchRejects ==
    /\ http.pc = "fetch"
    /\ ~http.aborted
    /\ \E k \in RejectKinds :
       \E reply \in {RemoteReply(WideReplyKinds[k], MemberMe)} :
          http' = [http EXCEPT !.reply = reply, !.timer = "cleared", !.pc = "settled",
                               !.outcome = HttpClientRequest(reply)]
    /\ UNCHANGED <<batchVars, service, debug, toolVars>>

\* the timer fires: controller.abort()
AbortTimerFires ==
    /\ Pending
    /\ http.timer = "armed"
    /\ http.elapsed >= TimeoutMs
    /\ http' = [http EXCEPT !.timer = "fired", !.aborted = TRUE]
    /\ UNCHANGED <<batchVars, service, debug, toolVars>>

\* the pending fetch() or body read rejects with the AbortError of the
\* aborted signal: 'Request timeout after 30 seconds'
AbortRejects ==
    /\ Pending
    /\ http.aborted
    /\ \E reply \in {RemoteReply("abort", MemberMe)} :
          http' = [http EXCEPT !.reply = reply, !.pc = "settled",
                               !.outcome = HttpClientRequest(reply)]
    /\ UNCHANGED <<batchVars, service, debug, toolVars>>

\* the body has arrived: response.text() resolves and the HTTP error is
\* thrown, or response.json() resolves or rejects
BodyRead ==
    /\ http.pc \in {"text", "json"}
    /\ ~http.aborted
    /\ http' = [http EXCEPT !.pc = "settled", !.outcome = HttpClientRequest(http.reply)]
    /\ UNCHANGED <<batchVars, service, debug, toolVars>>

HttpNext ==
    \/ RequestSend
    \/ Tick
    \/ FetchResolves
    \/ FetchRejects
    \/ AbortTimerFires
    \/ AbortRejects
    \/ BodyRead

\* the server may stall at any stage: no step of it is ever forced
HttpSpec == HttpInit /\ [][HttpNext]_vars

(***************************************************************************)
(* TrelloApiService: initialize(), validateCredentials() and               *)
(* makeAuthenticatedRequest() called in any order by two callers           *)
(***************************************************************************)
\* a faulty InitializedAfter: the flag is set before the validation is awaited
InitializedAfterEager(initialized, got) == TRUE

\* isInitialized after validateCredentials() has settled: line 50 is reached
\* only when the awaited call did not throw
InitializedAfter(initialized, got) == initialized \/ ~got.thrown

ServiceInit ==
    /\ BatchIdle
    /\ http = NoRequest
    /\ debug = NoDebug
    /\ service = NoService

\* caller c calls initialize(): it returns at once when the service is
\* initialized, else it loads the configuration and awaits
\* validateCredentials(), which sends GET /members/me with key and token
ServiceInitialize(c) ==
    /\ service.init[c] \in {"idle", "returned", "failed"}
    /\ service' =
          IF isInitialized
          THEN [service EXCEPT
                  !.init[c] = "returned",
                  !.last = Step("initialize", TRUE, service.validated, NothingSent, <<>>)]
          ELSE [service EXCEPT
                  !.config = Credentials,
                  !.init[c] = "wait",
                  !.last = Step("initialize", FALSE, service.validated,
                                Sent("validate", "GET",
                                     SearchParams(Params(Credentials.apiKey, Credentials.token, Undefined))),
                                <<>>)]
    /\ UNCHANGED <<batchVars, http, debug, toolVars>>

\* the credentials request of caller c settles
ServiceValidationSettles(c) ==
    /\ service.init[c] = "wait"
    /\ \E k \in 1..Len(ReplyKinds) :
       \E got \in {HttpClientRequest(RemoteReply(ReplyKinds[k], MemberMe))} :
          /\ isInitialized' = InitializedAfter(isInitialized, got)
          /\ service' =
                [service EXCEPT
                   !.init[c] = IF got.thrown THEN "failed" ELSE "returned",
                   !.validated = @ \/ ~got.thrown,
                   !.last = Step("settle", isInitialized, service.validated, NothingSent,
                                 IF got.thrown
                                 THEN InitializeError(InvalidCredentialsMessage).message
                                 ELSE <<>>)]
    /\ UNCHANGED <<mainPc, envOk, remoteItems, args, pc, i, results,
                   successfulCount, failedCount, response, calls, trace, replies,
                   second, http, debug, toolVars>>

\* get(), post(), put() or delete() is called with the caller's params
ServiceRequest ==
    /\ \E m \in {"GET", "POST", "PUT", "DELETE"}, p \in 1..Len(ParamsInputs) :
          service' =
             IF ~isInitialized
             THEN [service EXCEPT
                     !.last = Step("request", FALSE, service.validated, NothingSent,
                                   NotInitializedMessage)]
             ELSE [service EXCEPT
                     !.last = Step("request", TRUE, service.validated,
                                   Sent("request", m,
                                        SearchParams(AuthParams(service.config, ParamsInputs[p]))),
                                   <<>>)]
    /\ UNCHANGED <<batchVars, http, debug, toolVars>>

ServiceNext ==
    \/ \E c \in Callers : ServiceInitialize(c)
    \/ \E c \in Callers : ServiceValidationSettles(c)
    \/ ServiceRequest

ServiceSpec == ServiceInit /\ [][ServiceNext]_vars

(***************************************************************************)
(* The text report of a completed batch and the server's tool wrapper      *)
(***************************************************************************)
\* results.filter(r => r.success).map(r => `- **${r.result.name}** (ID: \`${r.result.id}\`)`)
RECURSIVE AddedLines(_)
AddedLines(rs) ==
    IF rs = <<>> THEN <<>>
    ELSE (IF Head(rs).success
          THEN <<[name |-> Head(rs).result.v.name, id |-> Head(rs).result.v.id]>>
          ELSE <<>>) \o AddedLines(Tail(rs))

\* a faulty FailedLines: the failed items are reported by a count only
FailedLinesOmitted(rs) == <<>>

\* results.filter(r => !r.success).map(r => `- **${r.item.name}**: ${r.error}`)
RECURSIVE FailedLines(_)
FailedLines(rs) ==
    IF rs = <<>> THEN <<>>
    ELSE (IF ~Head(rs).success
          THEN <<[name |-> Head(rs).item.v.name, error |-> Head(rs).error]>>
          ELSE <<>>) \o FailedLines(Tail(rs))

\* the text of the summary response: the heading, the summary, the section
\* of the added items when successfulCount > 0 and the section of the failed
\* items when failedCount > 0
ReportText(resp) ==
    [title |-> resp.title,
     total |-> resp.summary.total,
     successful |-> resp.summary.successful,
     failed |-> resp.summary.failed,
     checklistId |-> resp.summary.checklistId,
     added |-> IF resp.summary.successful > 0 THEN AddedLines(resp.results) ELSE <<>>,
     failedItems |-> IF resp.summary.failed > 0 THEN FailedLines(resp.results) ELSE <<>>]

\* what the handler returns for a completed batch: content and _meta
HandlerResult(resp) ==
    [content |-> <<[type |-> "text", text |-> ReportText(resp)]>>,
     meta |-> [batchOperation |-> TRUE, summary |-> resp.summary, results |-> resp.results]]

\* the callback registered with server.tool(): of the handler's result it
\* returns the content, each entry with its type and text
ServerToolWrapper(result) ==
    [content |-> [k \in DOMAIN result.content |->
                    [type |-> result.content[k].type, text |-> result.content[k].text]]]

(***************************************************************************)
(* The validation of the positions: batches of two items with a position   *)
(* each                                                                    *)
(***************************************************************************)
\* positions: the two words, other strings, integers, numbers that are not
\* integers, values that are neither strings nor numbers
PositionInputs ==
    <<Str(<<"t","o","p">>), Str(<<"b","o","t","t","o","m">>), Str(<<"T","o","p">>),
      Str(<<"m","i","d","d","l","e">>), Str(<<>>), Str(<<"1">>),
      Num(0), Num(1), Num(65536), Num(-1),
      Fraction(3, 2), Fraction(1, 2), Fraction(-1, 2),
      Bool(TRUE), Null>>

PositionInit ==
    /\ OtherIdle
    /\ mainPc = "absent"
    /\ envOk = TRUE
    /\ isInitialized = FALSE
    /\ remoteItems = <<>>
    /\ \E p \in 1..Len(PositionInputs), q \in 1..Len(PositionInputs) :
          args = [checklistId |-> ValidChecklistId,
                  items |-> Arr(<<Item(Str(<<"A">>), PositionInputs[p], Undefined),
                                  Item(Str(<<"B">>), PositionInputs[q], Bool(TRUE))>>)]
    /\ pc = "idle"
    /\ i = 0
    /\ results = <<>>
    /\ successfulCount = 0
    /\ failedCount = 0
    /\ response = NoResponse
    /\ calls = <<>>
    /\ trace = <<>>
    /\ replies = <<>>
    /\ second = NoSecond

PositionSpec == PositionInit /\ [][ValidationNext]_vars

(***************************************************************************)
(* parseError of trello-error-handler.ts                                   *)
(***************************************************************************)
\* TRELLO_ERROR_PATTERNS, in the order of declaration
ErrorPatterns ==
    <<[error |-> "Resource not found",
       patterns |-> <<<<"n","o","t"," ","f","o","u","n","d">>, <<"4","0","4">>>>],
      [error |-> "Authentication failed",
       patterns |-> <<<<"u","n","a","u","t","h","o","r","i","z","e","d">>, <<"4","0","1">>, <<"c","r","e","d","e","n","t","i","a","l","s">>>>],
      [error |-> "Access forbidden",
       patterns |-> <<<<"f","o","r","b","i","d","d","e","n">>, <<"4","0","3">>>>],
      [error |-> "Rate limit exceeded",
       patterns |-> <<<<"r","a","t","e"," ","l","i","m","i","t">>, <<"4","2","9">>>>],
      [error |-> "Network error",
       patterns |-> <<<<"n","e","t","w","o","r","k">>, <<"f","e","t","c","h">>, <<"t","i","m","e","o","u","t">>>>],
      [error |-> "Invalid list ID",
       patterns |-> <<<<"i","n","v","a","l","i","d">>, <<"l","i","s","t">>>>],
      [error |-> "Invalid board ID",
       patterns |-> <<<<"i","n","v","a","l","i","d">>, <<"b","o","a","r","d">>>>],
      [error |-> "Missing environment variables",
       patterns |-> <<<<"e","n","v","i","r","o","n","m","e","n","t">>>>]>>

\* errorPattern.patterns.some(pattern => errorMessage.includes(pattern))
SomePattern(group, errorMessage) ==
    \E p \in DOMAIN group.patterns : Includes(errorMessage, group.patterns[p])

\* the loop over Object.entries(TRELLO_ERROR_PATTERNS) from entry k on: the
\* first entry with a pattern in the message, else the default
RECURSIVE ParseFrom(_, _, _)
ParseFrom(k, errorMessage, error) ==
    IF k > Len(ErrorPatterns)
    THEN [error |-> "Operation failed",
          message |-> IF error.isError THEN error.message
                      ELSE <<"A","n"," ","u","n","k","n","o","w","n"," ","e","r","r","o","r"," ","o","c","c","u","r","r","e","d",".">>]
    ELSE IF SomePattern(ErrorPatterns[k], errorMessage)
    THEN [error |-> ErrorPatterns[k].error, message |-> <<>>]
    ELSE ParseFrom(k + 1, errorMessage, error)

ParseError(error) ==
    ParseFrom(1, IF error.isError THEN ToLowerCase(error.message) ELSE <<>>, error)

(***************************************************************************)
(* debug-trello, run twice side by side: the two runs have the same remote *)
(* outcomes and differ in the values of the credentials only               *)
(***************************************************************************)
KeyA == <<"0","1","2","3","4","5","6","7","8","9","a","b","c","d","e","f">>
KeyB == <<"0","1","2","3","4","5","6","7","8","9","a","b","X","X","X","X">>
KeyC == <<"f","e","d","c","b","a","9","8","7","6","5","4","3","2","1","0">>
TokenA == <<"A","T","T","A","0","1","2","3","4","5","6","7","8","9">>
TokenB == <<"A","T","T","B","0","1","2","3","4","5","6","7","8","9">>
TokenC == <<"A","T","T","A","0","1","2","3","4","5","6","7","8","9","z","z">>

\* the environments of the two runs: keys and tokens that differ in their
\* first 8 characters, after them, or in their length; the same credentials;
\* no credentials
EnvPairs ==
    <<<<Env(Str(KeyA), Str(TokenA)), Env(Str(KeyB), Str(TokenA))>>,
      <<Env(Str(KeyA), Str(TokenA)), Env(Str(KeyC), Str(TokenA))>>,
      <<Env(Str(KeyA), Str(TokenA)), Env(Str(KeyA), Str(TokenB))>>,
      <<Env(Str(KeyA), Str(TokenA)), Env(Str(KeyA), Str(TokenC))>>,
      <<Env(Str(KeyA), Str(TokenA)), Env(Str(KeyA), Str(TokenA))>>,
      <<Env(Undefined, Undefined), Env(Undefined, Undefined)>>>>

\* s.substring(0, 8)
Substring8(s) == SubSeq(s, 1, IF Len(s) < 8 THEN Len(s) ELSE 8)

\* the catch block of the initialization test: the error and the
\* environment check
EnvironmentCheck(env, errorMsg) ==
    <<Line("Initialization failed: - Error: ", errorMsg),
      Line("- TRELLO_API_KEY: ", IF Falsy(env.key) THEN <<"N","o","t"," ","s","e","t">> ELSE <<"S","e","t">>),
      Line("- TRELLO_TOKEN: ", IF Falsy(env.token) THEN <<"N","o","t"," ","s","e","t">> ELSE <<"S","e","t">>)>>
    \o (IF Falsy(env.key) THEN <<>>
        ELSE <<Line("- API Key starts with: ", Substring8(env.key.v))>>)
    \o (IF Falsy(env.token) THEN <<>>
        ELSE <<Line("- Token starts with: ", Substring8(env.token.v)),
               Line("- Token length: ", NatToString(Len(env.token.v)))>>)

\* both runs append the lines of their own environment
Failed(d, errorMsg) ==
    [d EXCEPT !.pc = "done", !.failed = TRUE,
              !.text = [r \in {1, 2} |-> d.text[r] \o EnvironmentCheck(d.env[r], errorMsg)]]
Appended(d, lines, nextPc) ==
    [d EXCEPT !.pc = nextPc, !.text = [r \in {1, 2} |-> d.text[r] \o lines]]

TypeErrorMessage == <<"C","a","n","n","o","t"," ","r","e","a","d"," ","p","r","o","p","e","r","t","i","e","s"," ","o","f"," ","n","u","l","l">>

DebugInit ==
    /\ BatchIdle
    /\ http = NoRequest
    /\ service = NoService
    /\ \E p \in 1..Len(EnvPairs) : debug = [NoDebug EXCEPT !.env = EnvPairs[p]]

idleVars == <<mainPc, envOk, remoteItems, args, pc, i, results, successfulCount,
              failedCount, response, calls, trace, replies, second, http, service,
              card, lists>>

\* the handler up to `await trelloService.initialize()`: the service info,
\* then initialize() throws on the missing credentials or sends its request
DebugInvoke ==
    /\ debug.pc = "idle"
    /\ \E d \in {Appended(debug,
                          <<Line("**Service Initialized:** ", IF isInitialized THEN <<"t","r","u","e">> ELSE <<"f","a","l","s","e">>),
                            Line("**Base URL:** ", <<"N","o","t"," ","c","o","n","f","i","g","u","r","e","d">>)>>,
                          "init_wait")} :
          debug' = IF Falsy(debug.env[1].key) \/ Falsy(debug.env[1].token)
                   THEN Failed(d, InitializeError(MissingCredentialsMessage).message)
                   ELSE d
    /\ UNCHANGED <<isInitialized, idleVars>>

\* the credentials request settles
DebugInitSettles ==
    /\ debug.pc = "init_wait"
    /\ \E k \in 1..Len(ReplyKinds) :
       \E got \in {HttpClientRequest(RemoteReply(ReplyKinds[k], MemberMe))} :
          /\ isInitialized' = InitializedAfter(isInitialized, got)
          /\ debug' = IF got.thrown
                      THEN Failed(debug, InitializeError(InvalidCredentialsMessage).message)
                      ELSE Appended(debug, <<Line("Initialization successful!", <<>>)>>, "user_wait")
    /\ UNCHANGED idleVars

\* getCurrentUser() settles: the user's id, or the catch block
DebugUserSettles ==
    /\ debug.pc = "user_wait"
    /\ \E k \in 1..Len(WideReplyKinds) :
       \E got \in {HttpClientRequest(RemoteReply(WideReplyKinds[k], MemberMe))} :
          debug' = IF got.thrown THEN Failed(debug, got.error.message)
                   ELSE IF got.value.t # "object" THEN Failed(debug, TypeErrorMessage)
                   ELSE Appended(debug, <<Line("User Info Retrieved: - ID: ", got.value.v.id.v)>>,
                                 "boards_wait")
    /\ UNCHANGED <<isInitialized, idleVars>>

\* getUserBoards() settles: the number of boards, or the catch block
DebugBoardsSettles ==
    /\ debug.pc = "boards_wait"
    /\ \E k \in 1..Len(WideReplyKinds) :
       \E got \in {HttpClientRequest(RemoteReply(WideReplyKinds[k], Arr(<<MemberMe>>)))} :
          debug' = IF got.thrown THEN Failed(debug, got.error.message)
                   ELSE IF got.value.t # "array" THEN Failed(debug, TypeErrorMessage)
                   ELSE Appended(debug, <<Line("Boards Retrieved: ", NatToString(Len(got.value.v)))>>,
                                 "done")
    /\ UNCHANGED <<isInitialized, idleVars>>

DebugNext ==
    \/ DebugInvoke
    \/ DebugInitSettles
    \/ DebugUserSettles
    \/ DebugBoardsSettles

DebugSpec == DebugInit /\ [][DebugNext]_vars

(***************************************************************************)
(* update-card: CardValidation, the update payload and the one PUT         *)
(***************************************************************************)
\* the parameters of the tool: cardId, and the fields that can be updated in
\* the order in which the payload takes them
UpdatableFields ==
    <<"name", "desc", "closed", "idList", "idBoard", "pos", "due", "start",
      "dueComplete", "idMembers", "idLabels">>
UpdatableNames == {UpdatableFields[k] : k \in 1..Len(UpdatableFields)}
ParameterNames == {"cardId"} \cup UpdatableNames

\* the arguments object: a parameter that is not given reads as undefined
CardArgs(given) ==
    [f \in ParameterNames |-> IF f \in DOMAIN given THEN given[f] ELSE Undefined]

\* one ValidationError of CardValidation; at is the index in an array of
\* ids, -1 otherwise
CardError(field, message, at) == [field |-> field, message |-> message, at |-> at]

\* /^[a-f0-9]{24}$/i.test(id); no other value of this model coerces to 24
\* hexadecimal characters
IsValidId(id) ==
    /\ id.t = "string"
    /\ Len(id.v) = IdLength
    /\ \A k \in 1..Len(id.v) : id.v[k] \in HexChars

\* validatePosition: the error, or <<>> for null
ValidatePosition(pos) ==
    IF pos.t = "string"
    THEN IF pos.v # <<"t","o","p">> /\ pos.v # <<"b","o","t","t","o","m">>
         THEN <<CardError("pos", "Position string must be 'top' or 'bottom'", -1)>>
         ELSE <<>>
    ELSE IF pos.t \in {"number", "fraction"}
    THEN IF pos.t = "fraction" \/ pos.v < 0
         THEN <<CardError("pos", "Position number must be a non-negative integer", -1)>>
         ELSE <<>>
    ELSE <<CardError("pos", "Position must be a string ('top'/'bottom') or number", -1)>>

\* !isNaN(new Date(dateStr).getTime()): a date-time of the ISO shape, or a
\* date alone, parses when its fields are in range; the other strings of
\* this model are words, which do not parse
DateOnly(s) ==
    /\ Len(s) = 10
    /\ AllDigits(s, 1, 4) /\ s[5] = "-" /\ AllDigits(s, 6, 7) /\ s[8] = "-"
    /\ AllDigits(s, 9, 10)
DateParses(s) ==
    IF MatchesIso8601(s) THEN DateIsValid(s)
    ELSE /\ DateOnly(s)
         /\ DigitsValue(SubSeq(s, 6, 7)) \in 1..12
         /\ DigitsValue(SubSeq(s, 9, 10)) \in 1..31

\* validateDateString
ValidateDateString(dateStr, fieldName) ==
    IF dateStr.t # "string" THEN <<CardError(fieldName, "must be a string", -1)>>
    ELSE IF ~DateParses(dateStr.v) THEN <<CardError(fieldName, "Invalid date format", -1)>>
    ELSE IF ~MatchesIso8601(dateStr.v)
    THEN <<CardError(fieldName, "must be in ISO 8601 format", -1)>>
    ELSE <<>>

\* validateIdArray: the first element that is not an id
ValidateIdArray(idArray, fieldName) ==
    IF idArray.t # "array" THEN <<CardError(fieldName, "must be an array", -1)>>
    ELSE LET bad == {k \in 1..Len(idArray.v) : ~IsValidId(idArray.v[k])}
         IN  IF bad = {} THEN <<>>
             ELSE <<CardError(fieldName, "Invalid ID at index",
                              (CHOOSE k \in bad : \A m \in bad : k <= m) - 1)>>

\* validateUpdateParameters: the errors in the order they are pushed
ValidateUpdateParameters(params) ==
    LET typed(f, type, message) ==
            IF ~IsUndefined(params[f]) /\ params[f].t # type
            THEN <<CardError(f, message, -1)>> ELSE <<>>
        id(f, message) ==
            IF ~IsUndefined(params[f]) /\ ~IsValidId(params[f])
            THEN <<CardError(f, message, -1)>> ELSE <<>>
        given(f, errors) == IF ~IsUndefined(params[f]) THEN errors ELSE <<>>
    IN  (IF Falsy(params.cardId) THEN <<CardError("cardId", "Card ID is required", -1)>>
         ELSE IF ~IsValidId(params.cardId)
         THEN <<CardError("cardId", "Invalid card ID format", -1)>>
         ELSE <<>>)
        \o typed("name", "string", "Card name must be a string")
        \o typed("desc", "string", "Card description must be a string")
        \o typed("closed", "boolean", "Closed status must be a boolean")
        \o id("idList", "Invalid list ID format")
        \o id("idBoard", "Invalid board ID format")
        \o given("pos", ValidatePosition(params.pos))
        \o given("due", ValidateDateString(params.due, "due"))
        \o given("start", ValidateDateString(params.start, "start"))
        \o typed("dueComplete", "boolean", "Due complete status must be a boolean")
        \o given("idMembers", ValidateIdArray(params.idMembers, "idMembers"))
        \o given("idLabels", ValidateIdArray(params.idLabels, "idLabels"))

\* \w of a regular expression
WordChars ==
    DigitChars \cup {"_"} \cup {UpperCase[k] : k \in 1..Len(UpperCase)}
               \cup {LowerCase[k] : k \in 1..Len(LowerCase)}

\* s starts with pat, whatever the case of its letters (pat in lower case)
StartsWith(s, pat) ==
    Len(s) >= Len(pat) /\ ToLowerCase(SubSeq(s, 1, Len(pat))) = pat

\* how many characters of s from position from on are in set
RECURSIVE RunLength(_, _, _)
RunLength(s, from, set) ==
    IF from <= Len(s) /\ s[from] \in set THEN 1 + RunLength(s, from + 1, set) ELSE 0

ScriptOpen == <<"<","s","c","r","i","p","t">>
ScriptClose == <<"<","/","s","c","r","i","p","t",">">>

\* .replace(/<script\b[^<]*(?:(?!<\/script>)<[^<]*)*<\/script>/gi, ""): an
\* opening tag up to the first closing tag after it
RECURSIVE RemoveScripts(_)
RemoveScripts(s) ==
    LET opens == /\ StartsWith(s, ScriptOpen)
                 /\ (Len(s) = Len(ScriptOpen) \/ s[Len(ScriptOpen) + 1] \notin WordChars)
        closes == {j \in (Len(ScriptOpen) + 1)..Len(s) :
                      StartsWith(SubSeq(s, j, Len(s)), ScriptClose)}
        first == CHOOSE j \in closes : \A m \in closes : j <= m
    IN  IF s = <<>> THEN <<>>
        ELSE IF opens /\ closes # {}
        THEN RemoveScripts(SubSeq(s, first + Len(ScriptClose), Len(s)))
        ELSE <<Head(s)>> \o RemoveScripts(Tail(s))

\* .replace(/javascript:/gi, "")
RECURSIVE RemoveJavascript(_)
RemoveJavascript(s) ==
    LET pat == <<"j","a","v","a","s","c","r","i","p","t",":">>
    IN  IF s = <<>> THEN <<>>
        ELSE IF StartsWith(s, pat) THEN RemoveJavascript(SubSeq(s, Len(pat) + 1, Len(s)))
        ELSE <<Head(s)>> \o RemoveJavascript(Tail(s))

\* .replace(/on\w+\s*=/gi, ""): "on", the longest run of word characters
\* (one at least), white space, "="
RECURSIVE RemoveHandlers(_)
RemoveHandlers(s) ==
    LET word == RunLength(s, 3, WordChars)
        space == RunLength(s, 3 + word, WhiteSpace)
        end == 3 + word + space
        matches == /\ StartsWith(s, <<"o", "n">>)
                   /\ word >= 1
                   /\ end <= Len(s) /\ s[end] = "="
    IN  IF s = <<>> THEN <<>>
        ELSE IF matches THEN RemoveHandlers(SubSeq(s, end + 1, Len(s)))
        ELSE <<Head(s)>> \o RemoveHandlers(Tail(s))

\* sanitizeString
SanitizeString(input) ==
    IF input.t # "string" THEN Str(<<>>)
    ELSE Str(Trim(RemoveHandlers(RemoveJavascript(RemoveScripts(input.v)))))

\* sanitizeParameters: name and desc sanitized, the other fields copied
SanitizeParameters(params) ==
    [f \in ParameterNames |->
        IF f \in {"name", "desc"} /\ ~IsUndefined(params[f])
        THEN SanitizeString(params[f]) ELSE params[f]]

\* a faulty UpdatePayload: the sanitized parameters as they are
UpdatePayloadWithCardId(sanitizedParams) ==
    [f \in {g \in ParameterNames : ~IsUndefined(sanitizedParams[g])} |-> sanitizedParams[f]]

\* updatePayload: the updatable fields that are not undefined
UpdatePayload(sanitizedParams) ==
    [f \in {g \in UpdatableNames : ~IsUndefined(sanitizedParams[g])} |-> sanitizedParams[f]]

\* the card the remote API returns for a PUT
UpdatedCard(cardId, payload) ==
    Obj([id |-> cardId,
         name |-> IF "name" \in DOMAIN payload THEN payload.name ELSE Str(<<"C","a","r","d">>)])

CardResponse(kind, errors, message) ==
    [kind |-> kind, errors |-> errors, message |-> message]

CardId == Str([k \in 1..IdLength |-> "c"])
OtherId == Str([k \in 1..IdLength |-> IF k % 2 = 0 THEN "E" ELSE "4"])

\* the arguments the tool is called with
CardInputs ==
    <<[cardId |-> CardId],
      [cardId |-> CardId, name |-> Str(<<" ","N","e","w"," ","n","a","m","e"," ">>)],
      [cardId |-> CardId, name |-> Str(<<"J","a","v","a","S","c","r","i","p","t",":">>), closed |-> Bool(FALSE)],
      [cardId |-> Str(<<"x","y","z">>), name |-> Str(<<"A">>)],
      [name |-> Str(<<"A">>)],
      [cardId |-> CardId, pos |-> Fraction(3, 2)],
      [cardId |-> CardId, pos |-> Num(0), due |-> Str(<<"2","0","2","4","-","0","1","-","1","5","T","1","0",":","0","0",":","0","0","Z">>), dueComplete |-> Bool(FALSE)],
      [cardId |-> CardId, idMembers |-> Arr(<<OtherId>>), idLabels |-> Arr(<<>>)],
      [cardId |-> CardId, idMembers |-> Arr(<<OtherId, Str(<<"b","a","d">>)>>)],
      [cardId |-> CardId, name |-> Str(<<"A">>), desc |-> Str(<<"t","e","x","t">>), closed |-> Bool(TRUE),
      idList |-> OtherId, idBoard |-> OtherId, pos |-> Str(<<"t","o","p">>), due |-> Str(<<"2","0","2","4","-","0","1","-","1","5","T","1","0",":","0","0",":","0","0","Z">>),
      start |-> Str(<<"2","0","2","4","-","0","1","-","1","0","T","0","9",":","3","0",":","0","0",".","0","0","0","Z">>), dueComplete |-> Bool(TRUE), idMembers |-> Arr(<<OtherId>>),
      idLabels |-> Arr(<<OtherId, OtherId>>)],
      [cardId |-> CardId, idList |-> Str(<<"n","o","p","e">>)],
      [cardId |-> CardId, desc |-> Str(<<>>)],
      [cardId |-> CardId, name |-> Str(<<"<","s","c","r","i","p","t",">","x","<","/","s","c","r","i","p","t",">","o","n","c","l","i","c","k"," ","=","H","i">>)],
      [cardId |-> CardId, due |-> Str(<<"2","0","2","4","-","0","1","-","1","5">>)],
      [cardId |-> CardId, start |-> Str(<<"t","o","m","o","r","r","o","w">>)],
      [cardId |-> CardId, name |-> Num(5)],
      [cardId |-> CardId, closed |-> Null]>>

CardInit ==
    /\ HandlerIdle
    /\ isInitialized \in BOOLEAN
    /\ http = NoRequest
    /\ service = NoService
    /\ debug = NoDebug
    /\ lists = NoLists
    /\ \E k \in 1..Len(CardInputs) : card = [NoCard EXCEPT !.args = CardArgs(CardInputs[k])]

\* the handler up to `await trelloService.put(...)`: a validation error or an
\* empty payload returns at once; put() throws when the service is not
\* initialized, and sends the request otherwise
UpdateCardInvoke ==
    /\ card.pc = "idle"
    /\ LET validationErrors == ValidateUpdateParameters(card.args)
           sanitizedParams == SanitizeParameters(card.args)
           updatePayload == UpdatePayload(sanitizedParams)
       IN  card' =
             IF validationErrors # <<>>
             THEN [card EXCEPT !.pc = "done",
                     !.response = CardResponse("validation", validationErrors,
                                               <<"V","a","l","i","d","a","t","i","o","n"," ","f","a","i","l","e","d">>)]
             ELSE IF DOMAIN updatePayload = {}
             THEN [card EXCEPT !.pc = "done",
                     !.response = CardResponse("noUpdate", <<>>,
                                               <<"N","o"," ","u","p","d","a","t","e"," ","p","a","r","a","m","e","t","e","r","s"," ","p","r","o","v","i","d","e","d">>)]
             ELSE IF ~isInitialized
             THEN [card EXCEPT !.pc = "done",
                     !.response = CardResponse("toolError", <<>>, NotInitializedMessage)]
             ELSE [card EXCEPT !.pc = "put",
                     !.puts = Append(@, [method |-> "PUT", cardId |-> sanitizedParams.cardId,
                                         body |-> updatePayload])]
    /\ UNCHANGED <<batchVars, http, service, debug, lists>>

\* the PUT settles: the response names the card, which throws on a body
\* that is null; a thrown value goes to generateToolErrorResponse
UpdateCardSettles ==
    /\ card.pc = "put"
    /\ \E k \in 1..Len(WideReplyKinds) :
       \E got \in {HttpClientRequest(RemoteReply(WideReplyKinds[k],
                      UpdatedCard(card.puts[1].cardId, card.puts[1].body)))} :
          card' = [card EXCEPT !.pc = "done",
                     !.response =
                        IF got.thrown THEN CardResponse("toolError", <<>>, got.error.message)
                        ELSE IF got.value.t = "null"
                        THEN CardResponse("toolError", <<>>, TypeErrorMessage)
                        ELSE CardResponse("success", <<>>, got.value.v.name.v)]
    /\ UNCHANGED <<batchVars, http, service, debug, lists>>

CardNext == UpdateCardInvoke \/ UpdateCardSettles

CardSpec == CardInit /\ [][CardNext]_vars

(***************************************************************************)
(* get-all-cards-for-each-list: one fetch per list, and the report         *)
(***************************************************************************)
\* list k of the remote board (the second one is archived), and n cards
ListOf(k) ==
    [id |-> <<"L">> \o NatToString(k), name |-> <<"l", "i", "s", "t">>, closed |-> (k = 2)]
CardsOf(n) == Arr([c \in 1..n |-> Obj([id |-> Str(<<"C">> \o NatToString(c))])])

\* the boards: the lists in any order, up to MaxLists of them
Boards ==
    UNION {{[k \in 1..n |-> ListOf(f[k])] :
              f \in {g \in [1..n -> 1..MaxLists] :
                        \A a, b \in 1..n : a # b => g[a] # g[b]}} :
           n \in 0..MaxLists}

ListsOut(kind, totalLists, totalCards, sections, message) ==
    [kind |-> kind, totalLists |-> totalLists, totalCards |-> totalCards,
     sections |-> sections, message |-> message]

\* the outer catch: the text with the message of the thrown value
ListsFailed(l, message) ==
    [l EXCEPT !.pc = "done", !.out = ListsOut("error", 0, 0, <<>>, message)]

\* the request for the cards of the list at position k
CardsRequest(l, k) ==
    [l EXCEPT !.pc = "cards",
              !.requests = Append(@, [path |-> "cards", id |-> l.fetched[k].id])]

\* the handler after initialize(): without a working board id it returns the
\* setup text; else it asks for the lists of the board
AfterInitialize(l) ==
    IF ~l.configured
    THEN [l EXCEPT !.pc = "done", !.out = ListsOut("notConfigured", 0, 0, <<>>, <<>>)]
    ELSE [l EXCEPT !.pc = "lists",
                   !.requests = Append(@, [path |-> "lists", id |-> <<>>])]

\* one round of the loop, from the settled fetch on: the entry is pushed, then
\* cards.length is added to the total; a value thrown by the fetch or by
\* cards.length is caught, and the list is pushed with no cards
LoopBody(l, list, got) ==
    IF got.thrown
    THEN [l EXCEPT !.listsWithCards = Append(@, [list |-> list, cards |-> Arr(<<>>)])]
    ELSE IF got.value.t # "array"
    THEN [l EXCEPT !.listsWithCards =
                      @ \o <<[list |-> list, cards |-> got.value],
                             [list |-> list, cards |-> Arr(<<>>)]>>]
    ELSE [l EXCEPT !.listsWithCards = Append(@, [list |-> list, cards |-> got.value]),
                   !.totalCards = @ + Len(got.value.v)]

\* the report: one section per entry of listsWithCards; cards.length throws
\* on an entry whose cards are null, which the outer catch turns into the
\* error text
Format(l) ==
    IF \E k \in 1..Len(l.listsWithCards) : l.listsWithCards[k].cards.t # "array"
    THEN ListsFailed(l, TypeErrorMessage)
    ELSE [l EXCEPT !.pc = "done",
            !.out = ListsOut("report", Len(l.fetched), l.totalCards,
                       [k \in 1..Len(l.listsWithCards) |->
                           [index |-> k,
                            id |-> l.listsWithCards[k].list.id,
                            name |-> l.listsWithCards[k].list.name,
                            status |-> IF l.listsWithCards[k].list.closed
                                       THEN "Closed" ELSE "Open",
                            count |-> Len(l.listsWithCards[k].cards.v)]],
                       <<>>)]

ListsInit ==
    /\ HandlerIdle
    /\ isInitialized \in BOOLEAN
    /\ http = NoRequest
    /\ service = NoService
    /\ debug = NoDebug
    /\ card = NoCard
    /\ \E b \in Boards, c \in BOOLEAN :
          lists = [NoLists EXCEPT !.board = b, !.configured = c]

\* the handler is called: it awaits initialize() when the service is not
\* initialized
GetAllCardsInvoke ==
    /\ lists.pc = "idle"
    /\ lists' = IF isInitialized THEN AfterInitialize(lists)
                ELSE [lists EXCEPT !.pc = "init"]
    /\ UNCHANGED <<batchVars, http, service, debug, card>>

\* the credentials request of initialize() settles
GetAllCardsInitSettles ==
    /\ lists.pc = "init"
    /\ \E k \in 1..Len(ReplyKinds) :
       \E got \in {HttpClientRequest(RemoteReply(ReplyKinds[k], MemberMe))} :
          /\ isInitialized' = InitializedAfter(isInitialized, got)
          /\ lists' = IF got.thrown
                      THEN ListsFailed(lists, InitializeError(InvalidCredentialsMessage).message)
                      ELSE AfterInitialize(lists)
    /\ UNCHANGED <<mainPc, envOk, remoteItems, args, pc, i, results, successfulCount,
                   failedCount, response, calls, trace, replies, second,
                   http, service, debug, card>>

\* GET /boards/{id}/lists settles: no lists, or the first fetch of cards
GetListsSettles ==
    /\ lists.pc = "lists"
    /\ \E k \in 1..Len(ReplyKinds) :
       \E got \in {HttpClientRequest(RemoteReply(ReplyKinds[k], Arr(lists.board)))} :
          lists' =
             IF got.thrown THEN ListsFailed(lists, got.error.message)
             ELSE IF got.value.t # "array" \/ got.value.v = <<>>
             THEN [lists EXCEPT !.pc = "done", !.out = ListsOut("noLists", 0, 0, <<>>, <<>>)]
             ELSE CardsRequest([lists EXCEPT !.fetched = got.value.v], 1)
    /\ UNCHANGED <<batchVars, http, service, debug, card>>

\* GET /lists/{id}/cards settles for the list in turn: the round of the loop,
\* then the fetch for the next list, or the report after the last one
GetCardsSettles ==
    /\ lists.pc = "cards"
    /\ \E k \in 1..Len(ReplyKinds), n \in 0..MaxCards :
       \E got \in {HttpClientRequest(RemoteReply(ReplyKinds[k], CardsOf(n)))} :
          LET at == Len(lists.got) + 1
              l == LoopBody([lists EXCEPT !.got = Append(@, got)], lists.fetched[at], got)
          IN  lists' = IF at < Len(lists.fetched) THEN CardsRequest(l, at + 1)
                       ELSE Format(l)
    /\ UNCHANGED <<batchVars, http, service, debug, card>>

ListsNext ==
    \/ GetAllCardsInvoke
    \/ GetAllCardsInitSettles
    \/ GetListsSettles
    \/ GetCardsSettles

ListsSpec == ListsInit /\ [][ListsNext]_vars

(***************************************************************************)
(* Vocabulary of the properties                                            *)
(***************************************************************************)
\* the validation has run in this invocation
Validated == \E k \in DOMAIN trace : trace[k].ev = "validate"

\* the batch request passes the validation
BatchValid == Len(ValidateBatchChecklistItemParameters(args)) = 0

\* the number of submitted items
N == ItemsLength(args.items)

\* the positions in the trace of: the create call of item idx, its settlement,
\* any request of the handler
IssuedAt(idx) ==
    {k \in DOMAIN trace : trace[k].ev = "POST checkItems" /\ trace[k].idx = idx}
SettledAt(idx) ==
    {k \in DOMAIN trace : trace[k].ev = "settle" /\ trace[k].idx = idx}
HandlerRequests ==
    {k \in DOMAIN trace : /\ trace[k].by = "handler"
                          /\ trace[k].ev \in {"GET /members/me", "POST checkItems"}}
Sleeps == {k \in DOMAIN trace : trace[k].ev = "sleep"}

\* the create call of item idx has settled with a failure
CallFailed(idx) == \E k \in SettledAt(idx) : ~trace[k].ok

\* a validate event precedes position k of the trace
ValidatedBefore(k) == \E j \in 1..(k - 1) : trace[j].ev = "validate"

\* the replies to the create calls, in order (the first reply is that of the
\* credentials request when the handler initialised the service)
PostReplies ==
    IF trace # <<>> /\ trace[1].ev = "GET /members/me" /\ replies # <<>>
    THEN Tail(replies) ELSE replies

(***************************************************************************)
(* C1..C10: the batch coordinator                                          *)
(***************************************************************************)
\* C1: in a batch that passed validation, when the create call of item k has
\* failed the handler does not stop: after the failure of a non-last item it
\* is in the pacing delay or awaiting the next call, and once it is done the
\* create call of every later item k+1..N-1 has been issued.
C1_FailureNeverEndsLoop ==
    \A k \in 0..(N - 1) :
        CallFailed(k) =>
            /\ (pc = "done" => \A j \in (k + 1)..(N - 1) : IssuedAt(j) # {})
            /\ (k < N - 1 /\ Len(results) = k + 1 => pc \in {"pacing", "post_wait"})

\* a finished batch whose first call failed and whose second was issued and
\* succeeded
C1_Witness ==
    /\ pc = "done" /\ N >= 2
    /\ CallFailed(0)
    /\ IssuedAt(1) # {} /\ results[2].success

\* C2: for a batch that passed validation the returned results have exactly
\* items.length entries, entry j has index j and item items[j], in input order
\* (and while the loop runs, results is the prefix of that sequence).
C2_ResultsMirrorItems ==
    /\ \A j \in 1..Len(results) :
          /\ j <= N
          /\ results[j].index = j - 1
          /\ results[j].item = args.items.v[j]
    /\ (pc = "done" /\ Validated /\ BatchValid) =>
          /\ response.kind = "summary"
          /\ response.results = results
          /\ Len(results) = N

\* a finished batch of two different items, a failure and a success
C2_Witness ==
    /\ pc = "done" /\ N = 2 /\ response.kind = "summary"
    /\ Len(response.results) = 2
    /\ args.items.v[1] # args.items.v[2]
    /\ ~results[1].success /\ results[2].success

\* C3: when the validation reports an error the handler issues no create call
\* and returns the validation-error response.
C3_InvalidBatchNoCalls ==
    (~BatchValid) =>
        /\ calls = <<>>
        /\ IssuedAt(0) = {}
        /\ Validated =>
              /\ pc = "done"
              /\ response = ValidationResponse(ValidateBatchChecklistItemParameters(args))

\* the batch [{name: "A"}, {name: ""}] with a valid checklist id was rejected
C3_Witness ==
    /\ Validated /\ ~BatchValid
    /\ IsValidChecklistId(args.checklistId)
    /\ args.items.t = "array"
    /\ args.items.v = <<ItemPool[1], ItemPool[3]>>
    /\ response.kind = "validation"

\* C4 as stated: within one invocation no remote request of any kind, the
\* credentials request of initialize() included, is issued before the
\* validation has run.
C4_NoRequestBeforeValidation ==
    \A k \in HandlerRequests : ValidatedBefore(k)

\* C4 as the code has it: no create call is issued before the validation has
\* run; a handler that finds the service initialised issues no request of any
\* kind before it; a handler that finds it uninitialised awaits initialize()
\* first, so the credentials request is issued and settled before the
\* validation runs.
C4_ValidationAfterInitialize ==
    /\ \A k \in DOMAIN trace : trace[k].ev = "POST checkItems" => ValidatedBefore(k)
    /\ mainPc = "connected" => \A k \in HandlerRequests : ValidatedBefore(k)
    /\ (mainPc = "absent" /\ Validated) =>
          /\ trace[1] = Event("handler", "GET /members/me", -1, 0, TRUE)
          /\ trace[2] = Event("handler", "settle", -1, 0, TRUE)
          /\ trace[3].ev = "validate"

\* an uninitialised service: the handler initialised it, validated, and
\* issued a create call
C4_Witness ==
    /\ mainPc = "absent" /\ Validated /\ IssuedAt(0) # {}

\* C5 as stated: summary.total = N, the counters equal the numbers of
\* successful and failed entries of results after every iteration,
\* successful + failed = N at the end, and entry j has success = true exactly
\* when the create call of item j returned successfully.
C5_CountersMatchCalls ==
    /\ successfulCount = Cardinality({j \in 1..Len(results) : results[j].success})
    /\ failedCount = Cardinality({j \in 1..Len(results) : ~results[j].success})
    /\ \A j \in 1..Len(results) :
          results[j].success <=> (\E k \in SettledAt(j - 1) : trace[k].ok)
    /\ (pc = "done" /\ Validated /\ BatchValid) =>
          /\ response.summary.total = N
          /\ response.summary.successful = successfulCount
          /\ response.summary.failed = failedCount
          /\ successfulCount + failedCount = N

\* C6: in a batch that passed validation every item receives exactly one
\* create call: no item is ever called twice, and a finished batch has issued
\* exactly items.length calls.
C6_OneCallPerItem ==
    /\ \A k \in 0..MaxBatchSize : Cardinality(IssuedAt(k)) <= 1
    /\ Len(calls) = Cardinality({k \in DOMAIN trace : trace[k].ev = "POST checkItems"})
    /\ (pc = "done" /\ Validated /\ BatchValid) =>
          /\ Len(calls) = N
          /\ \A k \in 0..(N - 1) : Cardinality(IssuedAt(k)) = 1

\* a finished batch of two items whose calls both failed: two calls
C6_Witness ==
    /\ pc = "done" /\ N = 2 /\ CallFailed(0) /\ CallFailed(1) /\ Len(calls) = 2

\* C7: at most one create call is in flight, the call of item j + 1 is issued
\* only after the call of item j has settled, and the calls are issued in
\* submission order.
C7_OneCallInFlight ==
    /\ Cardinality({k \in DOMAIN trace : trace[k].ev = "POST checkItems"})
       - Cardinality({k \in DOMAIN trace : trace[k].ev = "settle" /\ trace[k].idx >= 0})
       \in {0, 1}
    /\ \A k \in DOMAIN trace :
          (trace[k].ev = "POST checkItems" /\ trace[k].idx > 0) =>
              \E s \in SettledAt(trace[k].idx - 1) : s < k
    /\ \A m \in 1..Len(calls) : calls[m].index = m - 1

\* the call of the second item is in flight, the first has settled
C7_Witness ==
    /\ pc = "post_wait" /\ i = 1 /\ SettledAt(0) # {} /\ SettledAt(1) = {}

\* C8: exactly one pacing wait lies between the settlement of item j and the
\* call of item j + 1, none follows the last item (N - 1 waits in a finished
\* batch), and every wait is the same fixed interval whatever the outcome of
\* the item before it.
C8_FixedPacing ==
    /\ \A k \in Sleeps :
          /\ trace[k].ms = PacingDelayMs
          /\ trace[k].idx < N - 1
          /\ k > 1 /\ trace[k - 1].ev = "settle" /\ trace[k - 1].idx = trace[k].idx
    /\ \A k \in DOMAIN trace :
          (trace[k].ev = "settle" /\ trace[k].idx >= 0 /\ trace[k].idx < N - 1) =>
              /\ k < Len(trace)
              /\ trace[k + 1].ev = "sleep"
    /\ \A k \in DOMAIN trace :
          (trace[k].ev = "POST checkItems" /\ trace[k].idx > 0) =>
              /\ trace[k - 1].ev = "wake"
              /\ trace[k - 2].ev = "sleep" /\ trace[k - 2].idx = trace[k].idx - 1
    /\ (pc = "done" /\ Validated /\ BatchValid) => Cardinality(Sleeps) = N - 1

\* a finished batch of two items, the first rate-limited, the second
\* created: one wait, of the fixed interval
C8_Witness ==
    /\ pc = "done" /\ N = 2 /\ Cardinality(Sleeps) = 1
    /\ Len(results) = 2
    /\ ~results[1].success
    /\ results[1].error = Str(ItemErrorMessage(
           Error("Error", <<"4","2","9">>)))
    /\ results[2].success

\* C9: once the validation has passed the handler returns the summary
\* response whatever the calls did, and an item's error is recorded in that
\* item's entry only.
C9_SummaryWhateverTheCalls ==
    (Validated /\ BatchValid) =>
        /\ response.kind \in {"none", "summary"}
        /\ pc = "done" => response.kind = "summary"
        /\ \A j \in 1..Len(results) :
              /\ CallFailed(j - 1) => ~results[j].success
              /\ IF results[j].success
                 THEN results[j].error.t = "undefined" /\ results[j].result.t = "object"
                 ELSE results[j].error.t = "string" /\ results[j].result.t = "undefined"

\* a finished batch whose two calls failed, one with a timeout and one with
\* a thrown non-Error, with its summary
C9_Witness ==
    /\ pc = "done" /\ N = 2 /\ response.kind = "summary"
    /\ results[1].error = Str(ItemErrorMessage(HttpClientRequest(
                                   RemoteReply("abort", Undefined)).error))
    /\ results[2].error = Str(ItemErrorMessage(HttpClientRequest(
                                   RemoteReply("nonerror", Undefined)).error))
    /\ response.summary.failed = 2

\* the terminal states of an invocation
Rejected == response.kind = "validation" /\ calls = <<>>
Completed == response.kind = "summary" /\ Len(results) = N /\ Len(calls) = N
InitializationFailed ==
    response.kind = "toolError" /\ ~Validated /\ calls = <<>> /\ ~isInitialized

\* C10 as stated: an invocation ends Rejected (no create call) or Completed
\* (all N items processed).
C10_RejectedOrCompleted ==
    pc = "done" => (Rejected \/ Completed)

\* C10 as the code has it: when every call settles and every timer fires, an
\* invocation ends, and it ends in exactly one of three states: Rejected,
\* Completed, or failed initialisation (the service was not initialised and
\* initialize() threw: no validation, no create call, the generic error
\* response).  Processing never stops after fewer than N items.
C10_Terminates ==
    /\ (pc # "idle") ~> (pc = "done")
    /\ [](pc = "done" => (Rejected \/ Completed \/ InitializationFailed))
    /\ [](response.kind = "summary" => Len(results) = N)

\* an invocation that ended with the failure of initialize()
C10_Witness ==
    pc = "done" /\ InitializationFailed

(***************************************************************************)
(* C11..C20                                                                *)
(***************************************************************************)
\* the category of a remote error by what the remote answered: its HTTP
\* status, or the words "not found" in the error's text
CategoryOfReply(reply) ==
    LET posted == HttpClientRequest(reply)
    IN  IF reply.kind = "response" /\ reply.status = 404 THEN "not-found"
        ELSE IF posted.thrown /\ Includes(ToLowerCase(posted.error.message), <<"n","o","t"," ","f","o","u","n","d">>)
        THEN "not-found"
        ELSE IF reply.kind = "response" /\ reply.status = 401 THEN "unauthorized"
        ELSE IF reply.kind = "response" /\ reply.status = 403 THEN "forbidden"
        ELSE IF reply.kind = "response" /\ reply.status = 429 THEN "rate-limited"
        ELSE "other"

\* the category a failure reason is the message of
CategoryOfReason(reason) ==
    IF reason = ItemErrorMessage(Error("Error", <<"4","0","4">>)) THEN "not-found"
    ELSE IF reason = ItemErrorMessage(Error("Error", <<"4","0","1">>)) THEN "unauthorized"
    ELSE IF reason = ItemErrorMessage(Error("Error", <<"4","0","3">>)) THEN "forbidden"
    ELSE IF reason = ItemErrorMessage(Error("Error", <<"4","2","9">>)) THEN "rate-limited"
    ELSE "other"

\* C11 as stated: the failure reason of a failed item is the message of the
\* category of the remote error: not-found for a 404 or a "not found" error,
\* unauthorized for a 401, forbidden for a 403, rate-limited for a 429, and
\* otherwise the raw error message.
C11_ReasonByRemoteError ==
    \A j \in 1..Len(results) :
        (~results[j].success /\ j <= Len(PostReplies)) =>
            /\ CategoryOfReason(results[j].error.v) = CategoryOfReply(PostReplies[j])
            /\ CategoryOfReply(PostReplies[j]) = "other" =>
                  \/ results[j].error.v = HttpClientRequest(PostReplies[j]).error.message
                  \/ ~HttpClientRequest(PostReplies[j]).thrown

\* C12: a completed batch is reported as fully successful exactly when no
\* item failed; with failed items (all of them, even) it is reported as
\* completed with errors, by the summary response and never by the error
\* response of the whole call.
C12_SuccessIffNoFailure ==
    /\ response.kind = "summary" =>
          /\ response.overallSuccess <=> (response.summary.failed = 0)
          /\ response.overallSuccess <=> (\A j \in 1..Len(results) : results[j].success)
          /\ response.title = IF response.summary.failed = 0
                              THEN <<"C","o","m","p","l","e","t","e","d"," ","S","u","c","c","e","s","s","f","u","l","l","y">>
                              ELSE <<"C","o","m","p","l","e","t","e","d"," ","w","i","t","h"," ","E","r","r","o","r","s">>
    /\ (pc = "done" /\ Validated /\ BatchValid) => response.kind = "summary"

\* a finished batch of two items, one created and one failed: completed
\* with errors
C12_Witness ==
    /\ pc = "done" /\ response.kind = "summary"
    /\ successfulCount = 1 /\ failedCount = 1
    /\ ~response.overallSuccess
    /\ response.title = StatusTitle(FALSE)

\* the items of the successful entries of results, in order
RECURSIVE CreatedItems(_)
CreatedItems(rs) ==
    IF rs = <<>> THEN <<>>
    ELSE (IF Head(rs).success THEN <<Head(rs).result>> ELSE <<>>) \o CreatedItems(Tail(rs))

\* C13: once the validation has run the handler issues only create-item
\* calls (its only other request is the read-only credentials request of
\* initialize(), before the validation), so nothing is deleted when a later
\* item fails: the remote checklist always holds its prior items followed by
\* exactly the items of the successful entries, in order.
C13_NoRollback ==
    /\ \A k \in HandlerRequests :
          \/ trace[k].ev = "POST checkItems"
          \/ trace[k].ev = "GET /members/me" /\ ~ValidatedBefore(k)
    /\ \E p \in 1..Len(PriorInputs) :
          remoteItems = PriorInputs[p] \o CreatedItems(results)

\* a checklist with a prior item; the first item of the batch was created,
\* the second failed: the checklist holds the prior item and the first
C13_Witness ==
    /\ pc = "done" /\ N = 2 /\ Len(results) = 2
    /\ results[1].success /\ ~results[2].success
    /\ remoteItems = PriorInputs[2] \o <<results[1].result>>

\* C14: when the same valid batch of N items is submitted twice, the two
\* invocations together issue 2N create calls: the second issues the same N
\* calls as the first, also for the items the first has created.
C14_ResubmissionCallsAgain ==
    (/\ pc = "done" /\ second.h.pc = "done"
     /\ second.args = args
     /\ response.kind = "summary" /\ second.h.response.kind = "summary") =>
        /\ Len(calls) + Len(second.h.calls) = 2 * N
        /\ second.h.calls = calls
        /\ \A k \in 0..(N - 1) :
              Cardinality({m \in DOMAIN second.h.trace :
                             /\ second.h.trace[m].ev = "POST checkItems"
                             /\ second.h.trace[m].idx = k}) = 1

\* the batch of two items was submitted again after its first invocation
\* had ended with the first item created and the second failed; the first
\* item was created again
C14_Witness ==
    /\ pc = "done" /\ second.h.pc = "done" /\ second.afterFirst
    /\ second.args = args /\ N = 2
    /\ Len(results) = 2 /\ Len(second.h.results) = 2
    /\ results[1].success /\ ~results[2].success
    /\ second.h.results[1].success
    /\ Len(remoteItems) >= 2
    /\ remoteItems[1].v.name = remoteItems[2].v.name

\* an invocation run alone: its locals after it has received the replies rs
\* to its requests, in order (its pacing delays elapse on their own)
RECURSIVE Replay(_, _, _, _)
Replay(st, a, initialized, rs) ==
    IF st.pc = "pacing" THEN Replay(PacingStep(st, a, initialized), a, initialized, rs)
    ELSE IF rs = <<>> \/ st.pc \in {"idle", "done"} THEN st
    ELSE IF st.pc = "init_wait"
    THEN Replay(InitSettleStep(st, a, HttpClientRequest(Head(rs))), a,
                ~HttpClientRequest(Head(rs)).thrown, Tail(rs))
    ELSE Replay(PostSettleStep(st, a, initialized, Head(rs)), a, initialized, Tail(rs))

\* the invocation found the service initialised: it validated at once
StartedInitialized(tr) == tr # <<>> /\ tr[1].ev = "validate"

Alone(a, tr, rs) ==
    Replay(InvokeStep(IdleHandler, a, StartedInitialized(tr), envOk), a,
           StartedInitialized(tr), rs)

\* the locals h of an invocation are those of the same invocation run alone
SameAsAlone(h, alone) ==
    /\ h.results = alone.results
    /\ h.successfulCount = alone.successfulCount
    /\ h.failedCount = alone.failedCount
    /\ h.response = alone.response
    /\ h.pc = "done" => h = alone

\* the entries of rs are the items of a, in order
OwnItems(rs, a) ==
    \A j \in 1..Len(rs) :
        /\ j <= ItemsLength(a.items)
        /\ rs[j].index = j - 1
        /\ rs[j].item = a.items.v[j]

\* C20: however two invocations interleave, the results and the summary of
\* each hold its own items in its own order and are what the invocation
\* returns when it runs alone and receives the same replies; and an
\* invocation that waits for its call, its credentials request or its pacing
\* timer can always take its step, whatever the other invocation is doing.
C20_InvocationsIndependent ==
    /\ OwnItems(results, args) /\ OwnItems(second.h.results, second.args)
    /\ pc # "idle" => SameAsAlone(HandlerState, Alone(args, trace, replies))
    /\ second.h.pc # "idle" =>
          SameAsAlone(second.h, Alone(second.args, second.h.trace, second.replies))
    /\ pc = "idle" => ENABLED Invoke
    /\ pc = "init_wait" => ENABLED TwoInitSettle
    /\ pc = "post_wait" => ENABLED TwoPostSettle
    /\ pc = "pacing" => ENABLED PacingFire
    /\ second.h.pc = "idle" => ENABLED SecondInvoke
    /\ second.h.pc = "init_wait" => ENABLED SecondInitSettle
    /\ second.h.pc = "post_wait" => ENABLED SecondPostSettle
    /\ second.h.pc = "pacing" => ENABLED SecondPacingFire

\* both invocations await a create call at once, each with an entry of its
\* own: the first item of the first was created, that of the second failed
C20_Witness ==
    /\ pc = "post_wait" /\ second.h.pc = "post_wait"
    /\ args # second.args
    /\ Len(results) = 1 /\ Len(second.h.results) = 1
    /\ results[1].success /\ ~second.h.results[1].success

\* the fields of an item, in the order of its checks
ItemFields == <<"name", "pos", "checked", "due", "dueReminder", "idMember">>

\* field f of the item (an object) fails its field-level check
FieldOffends(item, f) ==
    CASE f = "name" -> Falsy(item.v.name) \/ ~IsValidItemName(item.v.name)
      [] f = "pos" -> ~IsUndefined(item.v.pos) /\ ~IsValidPosition(item.v.pos)
      [] f = "checked" -> ~IsUndefined(item.v.checked) /\ item.v.checked.t # "boolean"
      [] f = "due" -> ~IsUndefined(item.v.due) /\ ~IsValidDueDate(item.v.due)
      [] f = "dueReminder" ->
           ~IsUndefined(item.v.dueReminder) /\ ~IsValidDueReminder(item.v.dueReminder)
      [] f = "idMember" -> ~IsUndefined(item.v.idMember) /\ ~IsValidMemberId(item.v.idMember)

\* the offending places of a request, as <<index, field>>: the target id, the
\* items container or count, and the fields of the items
IdOffends(a) == Falsy(a.checklistId) \/ ~IsValidChecklistId(a.checklistId)
ContainerOffends(a) ==
    \/ a.items.t # "array"
    \/ Len(a.items.v) = 0
    \/ Len(a.items.v) > MaxBatchSize
ItemOffences(a) ==
    IF a.items.t # "array" THEN {}
    ELSE {<<k - 1, "">> : k \in {m \in 1..Len(a.items.v) : a.items.v[m].t # "object"}}
         \cup UNION {{<<k - 1, ItemFields[f]>> :
                        f \in {g \in 1..Len(ItemFields) :
                                 FieldOffends(a.items.v[k], ItemFields[g])}} :
                     k \in {m \in 1..Len(a.items.v) : a.items.v[m].t = "object"}}
Offences(a) ==
    (IF IdOffends(a) THEN {<<-1, "checklistId">>} ELSE {})
    \cup (IF ContainerOffends(a) THEN {<<-1, "items">>} ELSE {})
    \cup ItemOffences(a)

\* the places the errors of a validation name
ErrorPlaces(errs) == {<<errs[k].index, errs[k].field>> : k \in 1..Len(errs)}

\* the errors the handler's validation returned
ReturnedErrors == IF response.kind = "validation" THEN response.errors ELSE <<>>

\* C15 as stated: the validation returns an error for every offending place
\* of the request (target id, items container or count, every invalid field
\* of every item), also when several occur together.
C15_EveryOffendingField ==
    Validated => Offences(args) \subseteq ErrorPlaces(ReturnedErrors)

\* C15 as the code has it: the errors name exactly the offending target id,
\* the offending items container or count, and, only when items is an array
\* of 1 to 50 entries, every invalid field of every item (one error for a
\* field, one "Invalid item format" error for an item that is not an
\* object). The items of an empty or oversized array are not examined.
C15_EveryFieldOfASizedBatch ==
    Validated =>
        /\ ErrorPlaces(ReturnedErrors) =
              (IF IdOffends(args) THEN {<<-1, "checklistId">>} ELSE {})
              \cup (IF ContainerOffends(args) THEN {<<-1, "items">>} ELSE {})
              \cup (IF ContainerOffends(args) THEN {} ELSE ItemOffences(args))
        /\ Len(ReturnedErrors) = Cardinality(ErrorPlaces(ReturnedErrors))

\* a request with a bad target id and two items, one with six invalid
\* fields and one with two: nine errors
C15_Witness ==
    /\ Validated /\ response.kind = "validation"
    /\ IdOffends(args) /\ ~ContainerOffends(args)
    /\ Cardinality(ItemOffences(args)) = 8
    /\ Len(response.errors) = 9

\* every item of the request is individually valid
ItemsValid(a) ==
    /\ a.items.t = "array"
    /\ \A k \in 1..Len(a.items.v) :
          /\ a.items.v[k].t = "object"
          /\ \A f \in 1..Len(ItemFields) : ~FieldOffends(a.items.v[k], ItemFields[f])

\* C16: a request with a valid target id, 1 to 50 items (1 and 50 included)
\* and every item individually valid has no validation error, and the
\* handler goes on to the create call of its first item.
C16_ValidBatchAccepted ==
    (/\ IsValidChecklistId(args.checklistId)
     /\ ItemsValid(args)
     /\ Len(args.items.v) >= 1 /\ Len(args.items.v) <= MaxBatchSize) =>
        /\ ValidateBatchChecklistItemParameters(args) = <<>>
        /\ Validated =>
              /\ pc = "post_wait"
              /\ response = NoResponse
              /\ Len(calls) = 1 /\ calls[1].index = 0

\* a batch of 50 valid items was validated and its first call issued
C16_Witness ==
    /\ Validated /\ pc = "post_wait"
    /\ Len(args.items.v) = MaxBatchSize
    /\ Len(calls) = 1

\* C17: for an items array of length 0 or of length above 50 the validation
\* returns the items-count error on field items, and the handler returns
\* the validation response without a create call.
C17_BadCountRejected ==
    (args.items.t = "array" /\ (Len(args.items.v) = 0 \/ Len(args.items.v) > MaxBatchSize)) =>
        /\ \E k \in DOMAIN ValidateBatchChecklistItemParameters(args) :
              ValidateBatchChecklistItemParameters(args)[k] =
                  ValidationError(-1, "items", "Invalid batch size")
        /\ calls = <<>>
        /\ Validated =>
              /\ pc = "done"
              /\ response = ValidationResponse(ValidateBatchChecklistItemParameters(args))

\* a batch of 51 items with a valid target id was rejected with the single
\* items-count error
C17_Witness ==
    /\ Validated /\ response.kind = "validation"
    /\ args.items.t = "array" /\ Len(args.items.v) = MaxBatchSize + 1
    /\ response.errors = <<ValidationError(-1, "items", "Invalid batch size")>>

\* the place of an error in the order of the claim: the target id, the
\* items container, then the items by index and their fields in the order
\* of the checks
FieldRank(field) ==
    IF \E f \in 1..Len(ItemFields) : ItemFields[f] = field
    THEN CHOOSE f \in 1..Len(ItemFields) : ItemFields[f] = field
    ELSE 0
ErrorRank(e) ==
    IF e.index = -1 THEN (IF e.field = "checklistId" THEN 0 ELSE 1)
    ELSE 2 + e.index * (Len(ItemFields) + 1) + FieldRank(e.field)

\* C18: the errors are in order (the target-id error first, then the item
\* errors by ascending index, within an item in the order name, pos,
\* checked, due, dueReminder, idMember), and validating the request again
\* gives the list the handler returned.
C18_ErrorsOrdered ==
    Validated =>
        /\ \A k \in 1..(Len(ReturnedErrors) - 1) :
              ErrorRank(ReturnedErrors[k]) < ErrorRank(ReturnedErrors[k + 1])
        /\ ReturnedErrors = ValidateBatchChecklistItemParameters(args)

\* the nine errors of a request with a bad target id and two bad items, the
\* first on checklistId, the second on the name of item 0, the last on the
\* due date of item 1
C18_Witness ==
    /\ Validated /\ response.kind = "validation"
    /\ Len(response.errors) = 9
    /\ response.errors[1].field = "checklistId"
    /\ response.errors[2].index = 0 /\ response.errors[2].field = "name"
    /\ response.errors[9].index = 1 /\ response.errors[9].field = "due"

\* C19: the payload of the create call of every item of a validated batch has
\* the item's name trimmed and, of pos, checked, due, dueReminder and idMember,
\* exactly the fields the item has, falsy values (pos 0, checked false,
\* dueReminder 0) included, each with the item's value; a field the item does
\* not have is not in the payload (no default is sent).
OptionalFields == {"pos", "checked", "due", "dueReminder", "idMember"}
C19_PayloadMirrorsItem ==
    \A m \in 1..Len(calls) :
        LET item == args.items.v[calls[m].index + 1].v
            body == calls[m].body
        IN  /\ body.name = Str(Trim(item.name.v))
            /\ \A f \in OptionalFields :
                  /\ IsUndefined(body[f]) <=> IsUndefined(item[f])
                  /\ body[f] = item[f]

\* a create call was issued for an item whose name needs trimming and that has
\* pos 0, checked false, a due date and dueReminder 15 but no idMember
C19_Witness ==
    /\ Len(calls) = 1
    /\ LET item == args.items.v[1].v
           body == calls[1].body
       IN  /\ item.name.v # Trim(item.name.v)
           /\ body.name = Str(<<"A">>)
           /\ body.pos = Num(0) /\ body.checked = Bool(FALSE)
           /\ body.due.t = "string" /\ body.dueReminder = Num(15)
           /\ IsUndefined(body.idMember)

(***************************************************************************)
(* C21..C30                                                                *)
(***************************************************************************)
\* C21 as stated: every call of HttpClient.request is bounded by its 30-second
\* timer: while the call is pending the abort timer is armed (or has fired),
\* so no call is still pending after more than 30 seconds, at whatever stage
\* the server stalls.
C21_BoundedByTimer ==
    Pending =>
        /\ http.timer \in {"armed", "fired"}
        /\ http.elapsed <= TimeoutMs

\* C22 as stated: every request sent through makeAuthenticatedRequest (get,
\* post, put, delete) carries the query parameters key and token of the
\* configured credentials, whatever params the caller supplies, params with a
\* 'key' or 'token' entry included.
C22_ConfiguredCredentialsSent ==
    service.last.sent.kind = "request" =>
        /\ service.last.sent.query.key = Str(StringOf(service.config.apiKey))
        /\ service.last.sent.query.token = Str(StringOf(service.config.token))

\* C28: no authenticated request is sent unless an earlier credential
\* validation succeeded: isInitialized is true only after a validation that
\* succeeded; a call of initialize() that fails does not set it, and while it
\* is false a request is rejected with 'not initialized' and nothing is sent;
\* once true it never reverts, and initialize() called then sends nothing.
C28_StepsRespectValidation ==
    /\ isInitialized => service.validated
    /\ service.last.sent.kind = "request" =>
          service.last.initializedBefore /\ service.last.validatedBefore
    /\ (service.last.op = "request" /\ ~service.last.initializedBefore) =>
          /\ service.last.sent = NothingSent
          /\ service.last.thrown = NotInitializedMessage
    /\ (service.last.op = "settle" /\ service.last.thrown # <<>>) =>
          isInitialized = service.last.initializedBefore
    /\ (service.last.op = "initialize" /\ service.last.initializedBefore) =>
          service.last.sent = NothingSent
Rank(j, flag) == Cardinality({m \in 1..j : results[m].success = flag})

\* what the caller of a completed batch receives through the server
DeliveredText == ServerToolWrapper(HandlerResult(response)).content[1].text

\* C24: the response the caller of a completed batch receives through the
\* server's tool wrapper accounts for every item: it has the summary and N
\* entries, one for each item: an added entry with the created item's name
\* and id when the item succeeded, a failed entry with the item's name and
\* its recorded reason when it failed.
C24_DeliveredAccountsForEveryItem ==
    (pc = "done" /\ response.kind = "summary") =>
        /\ DOMAIN ServerToolWrapper(HandlerResult(response)) = {"content"}
        /\ DeliveredText.total = N
        /\ DeliveredText.successful = Len(DeliveredText.added)
        /\ DeliveredText.failed = Len(DeliveredText.failedItems)
        /\ Len(DeliveredText.added) + Len(DeliveredText.failedItems) = N
        /\ \A j \in 1..N :
              IF results[j].success
              THEN /\ Rank(j, TRUE) <= Len(DeliveredText.added)
                   /\ DeliveredText.added[Rank(j, TRUE)] =
                         [name |-> results[j].result.v.name, id |-> results[j].result.v.id]
                   /\ results[j].result.v.id.t = "string"
              ELSE /\ Rank(j, FALSE) <= Len(DeliveredText.failedItems)
                   /\ DeliveredText.failedItems[Rank(j, FALSE)] =
                         [name |-> args.items.v[j].v.name, error |-> results[j].error]
                   /\ results[j].error.t = "string"

\* a batch of two items completed through the connected server, the first
\* item failed and the second was added
C24_Witness ==
    /\ mainPc = "connected"
    /\ pc = "done" /\ response.kind = "summary" /\ N = 2
    /\ ~results[1].success /\ results[2].success
    /\ Len(DeliveredText.added) = 1 /\ Len(DeliveredText.failedItems) = 1

\* the events of the handler in the trace
HandlerEvents == {k \in DOMAIN trace : trace[k].by = "handler"}

\* C29: the server connects its transport only after initialize() has
\* succeeded; when initialize() fails the process exits and no handler has
\* run; so a handler invoked through the server finds the service
\* initialized and sends no credentials request of its own.
C29_HandlersSeeInitializedService ==
    /\ mainPc = "connected" =>
          /\ isInitialized
          /\ \E k \in DOMAIN trace :
                trace[k].by = "main" /\ trace[k].ev = "settle" /\ trace[k].ok
    /\ mainPc \in {"start", "init_wait", "exited"} =>
          pc = "idle" /\ HandlerEvents = {} /\ response = NoResponse
    /\ mainPc = "exited" => ~isInitialized
    /\ (mainPc # "absent" /\ pc # "idle") =>
          /\ isInitialized
          /\ pc # "init_wait"
          /\ \A k \in HandlerEvents : trace[k].ev # "GET /members/me"

\* a handler ran to its summary through the connected server, with calls
C29_Witness ==
    /\ mainPc = "connected" /\ pc = "done" /\ response.kind = "summary"
    /\ calls # <<>> /\ HandlerEvents # {}

\* the position is "top", "bottom" or a non-negative integer
IsStatedPosition(pos) ==
    \/ pos.t = "string" /\ pos.v \in {<<"t","o","p">>, <<"b","o","t","t","o","m">>}
    \/ pos.t = "number" /\ pos.v >= 0

\* the validation reported field pos of item k (from 0)
PosErrorAt(k) ==
    \E e \in DOMAIN ReturnedErrors :
        ReturnedErrors[e].index = k /\ ReturnedErrors[e].field = "pos"

\* C26 as stated: the batch validation accepts a position exactly when it is
\* "top", "bottom" or a non-negative integer; any other position (a negative
\* number, a number that is not an integer, another string) has a pos error
\* for its item.
C26_PositionAcceptedIffStated ==
    Validated =>
        \A k \in 1..Len(args.items.v) :
            PosErrorAt(k - 1) <=> ~IsStatedPosition(args.items.v[k].v.pos)

\* the entries of TRELLO_ERROR_PATTERNS with a pattern in the lower-cased message
MatchingEntries(error) ==
    {k \in DOMAIN ErrorPatterns :
        error.isError /\ SomePattern(ErrorPatterns[k], ToLowerCase(error.message))}

\* C27 as stated: the error of a missing TRELLO_API_KEY or TRELLO_TOKEN, as
\* initialize() surfaces it, is classified by parseError as 'Missing
\* environment variables'; and parseError returns the entry of the first
\* pattern group, in the order of declaration, with a pattern in the
\* lower-cased message.
C27_MissingEnvironmentClassified ==
    response.kind = "toolError" =>
        /\ ~envOk => ParseError(response.error).error = "Missing environment variables"
        /\ LET m == MatchingEntries(response.error)
           IN  ParseError(response.error).error =
                  IF m = {} THEN "Operation failed"
                  ELSE ErrorPatterns[CHOOSE k \in m : \A j \in m : k <= j].error

\* C23 as stated: no text a tool returns on an error path depends on the
\* value of the API key or of the token: two runs with the same remote
\* outcomes that differ in the credential values only return the same text,
\* the output of debug-trello on a failed initialization included.
C23_ErrorTextSameForAllCredentials ==
    (debug.pc = "done" /\ debug.failed) => debug.text[1] = debug.text[2]

(***************************************************************************)
(* update-card                                                             *)
(***************************************************************************)
\* the updatable fields the call was given
ProvidedFields == {f \in UpdatableNames : ~IsUndefined(card.args[f])}

\* C25: update-card sends at most one PUT; when validation reports an error
\* or no updatable field is given it sends no request; otherwise (the service
\* being initialized) it sends one, and the payload of a PUT has exactly the
\* updatable fields that were given, never cardId
C25_OnePutOfProvidedFields ==
    /\ Len(card.puts) <= 1
    /\ (ValidateUpdateParameters(card.args) # <<>> \/ ProvidedFields = {})
          => card.puts = <<>>
    /\ (/\ card.pc # "idle" /\ isInitialized
        /\ ValidateUpdateParameters(card.args) = <<>> /\ ProvidedFields # {})
          => Len(card.puts) = 1
    /\ \A k \in 1..Len(card.puts) :
          /\ card.puts[k].method = "PUT"
          /\ card.puts[k].cardId = card.args.cardId
          /\ DOMAIN card.puts[k].body = ProvidedFields
          /\ "cardId" \notin DOMAIN card.puts[k].body

\* a call with name and closed: false has sent its PUT and succeeded
C25_Witness ==
    /\ card.pc = "done"
    /\ card.response.kind = "success"
    /\ Len(card.puts) = 1
    /\ DOMAIN card.puts[1].body = {"name", "closed"}
    /\ card.puts[1].body.closed = Bool(FALSE)

(***************************************************************************)
(* get-all-cards-for-each-list                                             *)
(***************************************************************************)
\* the requests for cards sent so far, and the sum of the card counts of the
\* fetches among the first n that returned
CardRequests == SelectSeq(lists.requests, LAMBDA r : r.path = "cards")
RECURSIVE CardsReturned(_)
CardsReturned(n) ==
    IF n = 0 THEN 0
    ELSE CardsReturned(n - 1)
         + (IF ~lists.got[n].thrown /\ lists.got[n].value.t = "array"
            THEN Len(lists.got[n].value.v) ELSE 0)

\* C30: for a board of L lists the tool sends one fetch of cards per list, one
\* after the other in board order; when it has finished, the output has
\* exactly L sections in board order, a list whose fetch failed has zero
\* cards, and Total Cards is the sum of the card counts of the lists whose
\* fetch succeeded
C30_PerListFailuresIsolated ==
    LET L == Len(lists.fetched)
    IN  /\ Len(CardRequests) <= L
        /\ Len(CardRequests) \in {Len(lists.got), Len(lists.got) + 1}
        /\ \A k \in 1..Len(CardRequests) : CardRequests[k].id = lists.fetched[k].id
        /\ (lists.pc = "done" /\ L > 0) =>
              /\ Len(CardRequests) = L
              /\ lists.out.kind = "report"
              /\ lists.out.totalLists = L
              /\ Len(lists.out.sections) = L
              /\ \A k \in 1..Len(lists.out.sections) :
                    /\ lists.out.sections[k].index = k
                    /\ lists.out.sections[k].id = lists.fetched[k].id
                    /\ lists.got[k].thrown => lists.out.sections[k].count = 0
                    /\ ~lists.got[k].thrown =>
                          lists.out.sections[k].count = Len(lists.got[k].value.v)
              /\ lists.out.totalCards = CardsReturned(L)

====
